---- MODULE Spec2Model ----
(***************************************************************************)
(* solana_idl_parser: the parse_idl! procedural macro (src/src/lib.rs),    *)
(* its schema model (src/src/parser.rs) and its code generator             *)
(* (src/src/generator.rs), together with the behaviour of the code the     *)
(* generator emits: the item declarations as the Rust compiler accepts or  *)
(* rejects them, and <Program>Instructions::deserialize as it runs.        *)
(***************************************************************************)
EXTENDS Integers, Sequences, FiniteSets, TLC

VARIABLES document, idl, generated, errors, accounts, buf, sent, result, pc,
          frames, stream, outcomes, tx

vars ==
    <<document, idl, generated, errors, accounts, buf, sent, result, pc,
      frames, stream, outcomes, tx>>

(***************************************************************************)
(* Bounds of the model.                                                    *)
(***************************************************************************)
\* longest run of bytes that follows the 8 leading bytes of a raw buffer
MaxTail == 3
\* longest list of account metas handed to deserialize
MaxMetas == 3
\* longest Vec a caller encodes
MaxVec == 2
\* number of callers that run deserialize at the same time
MaxCallers == 2
\* longest list of instructions of one transaction
MaxStream == 3
\* longest list of account metas whose flags vary
MaxFlagged == 2
\* longest list of static account keys of a message
MaxKeys == 3
\* largest count in a message header
MaxHeader == 2

(***************************************************************************)
(* Sequence helpers.                                                       *)
(***************************************************************************)
SeqsUpTo(S, n) == UNION {[1 .. k -> S] : k \in 0 .. n}

RECURSIVE Flatten(_)
Flatten(ss) == IF ss = <<>> THEN <<>> ELSE Head(ss) \o Flatten(Tail(ss))

\* the positions i < j of two items of one name
Clashes(s) ==
    {p \in (DOMAIN s) \X (DOMAIN s) : p[1] < p[2] /\ s[p[1]].name = s[p[2]].name}

(***************************************************************************)
(* parser.rs: the schema model.                                            *)
(***************************************************************************)
\* IdlType::Primitive(String)
Primitive(s) == [k |-> "Primitive", name |-> s]
\* IdlType::Defined { defined }: IdlDefinedType::Simple(s) and ::Named { name }
\* both carry one name, which is all the generator reads (generator.rs 320-323)
Defined(n) == [k |-> "Defined", name |-> n]
\* IdlType::Option { option }
OptionOf(t) == [k |-> "Option", inner |-> t]
\* IdlType::Vec { vec }
VecOf(t) == [k |-> "Vec", inner |-> t]
\* IdlType::Array { array: (inner, size) }
ArrayOf(t, n) == [k |-> "Array", inner |-> t, size |-> n]

\* IdlField
IdlField(n, t) == [name |-> n, ty |-> t]

\* IdlInstructionAccount; the serde defaults of the flags are false
IdlInstructionAccount(n) ==
    [name |-> n, writable |-> FALSE, signer |-> FALSE, optional |-> FALSE]

\* IdlInstruction
IdlInstruction(n, d, accs, args) ==
    [name |-> n, docs |-> <<>>, discriminator |-> d, accounts |-> accs, args |-> args]

\* IdlTypeDefFields
FieldsNone == [k |-> "None"]
FieldsNamed(fs) == [k |-> "Named", fields |-> fs]
FieldsTuple(ts) == [k |-> "Tuple", types |-> ts]

\* IdlEnumVariant; fields: Option<IdlEnumVariantFields>, None when absent
IdlEnumVariant(n, f) == [name |-> n, fields |-> f]

\* IdlTypeDef with its IdlTypeDefType { kind, fields, variants }
IdlTypeDef(n, kind, fields, variants) ==
    [name |-> n, ty |-> [kind |-> kind, fields |-> fields, variants |-> variants]]

\* Idl, with no accounts, events and errors, which the generator does not
\* read
Idl(name, ixs, tys) ==
    [address |-> "pAMMBay6oceH9fJKBRHGP5D4bD4sWpmSwMn52FMfXEA",
     metadata |-> [name |-> name, version |-> "0.1.0"],
     instructions |-> ixs, accounts |-> <<>>, types |-> tys,
     events |-> <<>>, errors |-> <<>>]

(***************************************************************************)
(* parser.rs through serde_json::from_str (lib.rs 46-47).  A document is   *)
(* the JSON object as a record: a member the document leaves out is a key  *)
(* the record does not have.  The members marked #[serde(default)] take    *)
(* their default when left out.  The type trees of a document are written  *)
(* in their parsed form.                                                   *)
(***************************************************************************)
\* the member of d under key k, or its Default::default()
OrDefault(d, k, default) == IF k \in DOMAIN d THEN d[k] ELSE default

from_str_account(d) ==
    [name |-> d.name,
     writable |-> OrDefault(d, "writable", FALSE),
     signer |-> OrDefault(d, "signer", FALSE),
     optional |-> OrDefault(d, "optional", FALSE)]

from_str_instruction(d) ==
    [name |-> d.name,
     docs |-> OrDefault(d, "docs", <<>>),
     discriminator |-> d.discriminator,
     accounts |-> [j \in DOMAIN d.accounts |-> from_str_account(d.accounts[j])],
     args |-> OrDefault(d, "args", <<>>)]

\* serde's "missing field": a member without #[serde(default)] is left out
MissingField(doc) ==
    \/ ~({"address", "metadata", "instructions"} \subseteq DOMAIN doc)
    \/ ~({"name", "version"} \subseteq DOMAIN doc.metadata)
    \/ \E i \in DOMAIN doc.instructions :
          \/ ~({"name", "discriminator", "accounts"} \subseteq DOMAIN doc.instructions[i])
          \/ \E j \in DOMAIN doc.instructions[i].accounts :
                "name" \notin DOMAIN doc.instructions[i].accounts[j]

\* faulty variant: a member the structs do not name is refused, as under
\* #[serde(deny_unknown_fields)]
from_str_deny_unknown_fields(doc) ==
    IF MissingField(doc)
       \/ ~(DOMAIN doc \subseteq {"address", "metadata", "instructions", "accounts",
                                  "types", "events", "errors"})
    THEN [ok |-> FALSE, val |-> <<>>]
    ELSE [ok |-> TRUE,
          val |-> [address |-> doc.address,
                   metadata |-> [name |-> doc.metadata.name,
                                 version |-> doc.metadata.version],
                   instructions |-> [i \in DOMAIN doc.instructions |->
                                       from_str_instruction(doc.instructions[i])],
                   accounts |-> OrDefault(doc, "accounts", <<>>),
                   types |-> OrDefault(doc, "types", <<>>),
                   events |-> OrDefault(doc, "events", <<>>),
                   errors |-> OrDefault(doc, "errors", <<>>)]]

\* serde_json::from_str::<Idl>: Err when a required member is left out;
\* members the structs do not name are skipped
from_str(doc) ==
    IF MissingField(doc)
    THEN [ok |-> FALSE, val |-> <<>>]
    ELSE [ok |-> TRUE,
          val |-> [address |-> doc.address,
                   metadata |-> [name |-> doc.metadata.name,
                                 version |-> doc.metadata.version],
                   instructions |-> [i \in DOMAIN doc.instructions |->
                                       from_str_instruction(doc.instructions[i])],
                   accounts |-> OrDefault(doc, "accounts", <<>>),
                   types |-> OrDefault(doc, "types", <<>>),
                   events |-> OrDefault(doc, "events", <<>>),
                   errors |-> OrDefault(doc, "errors", <<>>)]]

(***************************************************************************)
(* convert_case on the names of the model's schemas.                       *)
(***************************************************************************)
\* <<name, Case::Pascal, Case::ScreamingSnake, Case::Snake>>
CaseTable ==
    { <<"buy", "Buy", "BUY", "buy">>,
      <<"Buy", "Buy", "BUY", "buy">>,
      <<"sell_all", "SellAll", "SELL_ALL", "sell_all">>,
      <<"pump_amm", "PumpAmm", "PUMP_AMM", "pump_amm">>,
      <<"user", "User", "USER", "user">>,
      <<"poolAuthority", "PoolAuthority", "POOL_AUTHORITY", "pool_authority">>,
      <<"amount", "Amount", "AMOUNT", "amount">>,
      <<"side", "Side", "SIDE", "side">>,
      <<"maxFee", "MaxFee", "MAX_FEE", "max_fee">>,
      <<"inner", "Inner", "INNER", "inner">>,
      <<"fee_tier", "FeeTier", "FEE_TIER", "fee_tier">>,
      <<"a", "A", "A", "a">>,
      <<"b", "B", "B", "b">> }

to_case(s, col) == (CHOOSE row \in CaseTable : row[1] = s)[col]

Pascal(s) == to_case(s, 2)
ScreamingSnake(s) == to_case(s, 3)
Snake(s) == to_case(s, 4)

(***************************************************************************)
(* generator.rs: the emitted Rust types and items.                         *)
(***************************************************************************)
\* a type path, Option<T>, Vec<T>, [T; N]
RPath(n) == [k |-> "Path", name |-> n]
ROption(t) == [k |-> "Option", inner |-> t]
RVec(t) == [k |-> "Vec", inner |-> t]
RArray(t, n) == [k |-> "Array", inner |-> t, size |-> n]

\* the primitive names idl_type_to_rust knows, with the path each becomes
PrimitiveTable ==
    { <<"bool", "bool">>, <<"u8", "u8">>, <<"u16", "u16">>, <<"u32", "u32">>,
      <<"u64", "u64">>, <<"u128", "u128">>, <<"i8", "i8">>, <<"i16", "i16">>,
      <<"i32", "i32">>, <<"i64", "i64">>, <<"i128", "i128">>, <<"f32", "f32">>,
      <<"f64", "f64">>, <<"string", "String">>,
      <<"pubkey", "::solana_sdk::pubkey::Pubkey">> }

RECURSIVE idl_type_to_rust(_)
\* faulty variant: the name of a Defined reference is put in Pascal case
idl_type_to_rust_cased(ty) ==
    CASE ty.k = "Primitive" ->
           IF ty.name = "bytes" THEN RVec(RPath("u8"))
           ELSE IF \E row \in PrimitiveTable : row[1] = ty.name
                THEN RPath((CHOOSE row \in PrimitiveTable : row[1] = ty.name)[2])
                ELSE RPath(ty.name)
      [] ty.k = "Defined" ->
           RPath(IF \E row \in CaseTable : row[1] = ty.name
                 THEN Pascal(ty.name) ELSE ty.name)
      [] ty.k = "Option" -> ROption(idl_type_to_rust(ty.inner))
      [] ty.k = "Vec" -> RVec(idl_type_to_rust(ty.inner))
      [] ty.k = "Array" -> RArray(idl_type_to_rust(ty.inner), ty.size)

idl_type_to_rust(ty) ==
    CASE ty.k = "Primitive" ->
           IF ty.name = "bytes" THEN RVec(RPath("u8"))
           ELSE IF \E row \in PrimitiveTable : row[1] = ty.name
                THEN RPath((CHOOSE row \in PrimitiveTable : row[1] = ty.name)[2])
                ELSE RPath(ty.name)
      [] ty.k = "Defined" -> RPath(ty.name)
      [] ty.k = "Option" -> ROption(idl_type_to_rust(ty.inner))
      [] ty.k = "Vec" -> RVec(idl_type_to_rust(ty.inner))
      [] ty.k = "Array" -> RArray(idl_type_to_rust(ty.inner), ty.size)

\* pub #field_name: #field_type, the name in snake case
field_def(f) == [name |-> Snake(f.name), ty |-> idl_type_to_rust(f.ty)]

\* a positional member of a tuple struct or tuple variant
tuple_member(t) == [name |-> "", ty |-> idl_type_to_rust(t)]

DiscriminatorConst(ix) == ScreamingSnake(ix.name) \o "_DISCRIMINATOR"
LenConst(ix) == ScreamingSnake(ix.name) \o "_IX_ACCOUNTS_LEN"
AccountsStruct(ix) == Pascal(ix.name) \o "Accounts"
ArgsStruct(ix) == Pascal(ix.name) \o "Args"

\* faulty variant: the bytes are cut or zero-filled to 8 before they are emitted
generate_discriminators_resized(instructions) ==
    [i \in DOMAIN instructions |->
        [item |-> "const",
         name |-> DiscriminatorConst(instructions[i]),
         ty |-> RArray(RPath("u8"), 8),
         value |-> [j \in 1 .. 8 |->
                      IF j <= Len(instructions[i].discriminator)
                      THEN instructions[i].discriminator[j] ELSE 0]]]

\* pub const <NAME>_DISCRIMINATOR: [u8; 8] = [bytes];
generate_discriminators(instructions) ==
    [i \in DOMAIN instructions |->
        [item |-> "const",
         name |-> DiscriminatorConst(instructions[i]),
         ty |-> RArray(RPath("u8"), 8),
         value |-> instructions[i].discriminator]]

\* faulty variant: every field reads metas[0]
from_metas_fields_first(ix) ==
    [j \in DOMAIN ix.accounts |-> [name |-> Snake(ix.accounts[j].name), idx |-> 0]]

\* #field_name: metas[#idx].pubkey for the i-th account, i counted from 0
from_metas_fields(ix) ==
    [j \in DOMAIN ix.accounts |-> [name |-> Snake(ix.accounts[j].name), idx |-> j - 1]]

\* faulty variant: the fields of the Accounts struct come out last to first
instruction_struct_items_unordered(ix) ==
    (IF ix.accounts # <<>>
     THEN << [item |-> "const", name |-> LenConst(ix), ty |-> RPath("usize"),
              value |-> Len(ix.accounts)],
             [item |-> "struct", name |-> AccountsStruct(ix), shape |-> "Named",
              fields |-> [j \in DOMAIN ix.accounts |->
                            [name |-> Snake(ix.accounts[Len(ix.accounts) + 1 - j].name),
                             ty |-> RPath("::solana_sdk::pubkey::Pubkey")]]],
             [item |-> "impl", name |-> AccountsStruct(ix),
              len_const |-> LenConst(ix),
              fields |-> from_metas_fields(ix)] >>
     ELSE <<>>)
    \o
    (IF ix.args # <<>>
     THEN << [item |-> "struct", name |-> ArgsStruct(ix), shape |-> "Named",
              fields |-> [j \in DOMAIN ix.args |-> field_def(ix.args[j])]] >>
     ELSE <<>>)

\* faulty variant: the Args struct is emitted without the test on args
instruction_struct_items_args_always(ix) ==
    (IF ix.accounts # <<>>
     THEN << [item |-> "const", name |-> LenConst(ix), ty |-> RPath("usize"),
              value |-> Len(ix.accounts)],
             [item |-> "struct", name |-> AccountsStruct(ix), shape |-> "Named",
              fields |-> [j \in DOMAIN ix.accounts |->
                            [name |-> Snake(ix.accounts[j].name),
                             ty |-> RPath("::solana_sdk::pubkey::Pubkey")]]],
             [item |-> "impl", name |-> AccountsStruct(ix),
              len_const |-> LenConst(ix),
              fields |-> from_metas_fields(ix)] >>
     ELSE <<>>)
    \o
    << [item |-> "struct", name |-> ArgsStruct(ix), shape |-> "Named",
        fields |-> [j \in DOMAIN ix.args |-> field_def(ix.args[j])]] >>

\* per instruction: the length constant, the Accounts struct and its
\* from_account_metas when accounts is not empty; the Args struct when args
\* is not empty
instruction_struct_items(ix) ==
    (IF ix.accounts # <<>>
     THEN << [item |-> "const", name |-> LenConst(ix), ty |-> RPath("usize"),
              value |-> Len(ix.accounts)],
             [item |-> "struct", name |-> AccountsStruct(ix), shape |-> "Named",
              fields |-> [j \in DOMAIN ix.accounts |->
                            [name |-> Snake(ix.accounts[j].name),
                             ty |-> RPath("::solana_sdk::pubkey::Pubkey")]]],
             [item |-> "impl", name |-> AccountsStruct(ix),
              len_const |-> LenConst(ix),
              fields |-> from_metas_fields(ix)] >>
     ELSE <<>>)
    \o
    (IF ix.args # <<>>
     THEN << [item |-> "struct", name |-> ArgsStruct(ix), shape |-> "Named",
              fields |-> [j \in DOMAIN ix.args |-> field_def(ix.args[j])]] >>
     ELSE <<>>)

generate_instruction_structs(instructions) ==
    Flatten([i \in DOMAIN instructions |-> instruction_struct_items(instructions[i])])

generate_enum_variant(variant) ==
    CASE variant.fields.k = "Named" ->
           [name |-> variant.name, shape |-> "Named",
            fields |-> [j \in DOMAIN variant.fields.fields |->
                          field_def(variant.fields.fields[j])]]
      [] variant.fields.k = "Tuple" ->
           [name |-> variant.name, shape |-> "Tuple",
            fields |-> [j \in DOMAIN variant.fields.types |->
                          tuple_member(variant.fields.types[j])]]
      [] variant.fields.k = "None" ->
           [name |-> variant.name, shape |-> "Unit", fields |-> <<>>]

Reverse(s) == [j \in DOMAIN s |-> s[Len(s) + 1 - j]]

\* faulty variant: the variants of an enum are emitted last to first
type_def_items_reversed(typedef) ==
    CASE typedef.ty.kind = "struct" ->
           << CASE typedef.ty.fields.k = "Named" ->
                     [item |-> "struct", name |-> typedef.name, shape |-> "Named",
                      fields |-> [j \in DOMAIN typedef.ty.fields.fields |->
                                    field_def(typedef.ty.fields.fields[j])]]
                [] typedef.ty.fields.k = "Tuple" ->
                     [item |-> "struct", name |-> typedef.name, shape |-> "Tuple",
                      fields |-> [j \in DOMAIN typedef.ty.fields.types |->
                                    tuple_member(typedef.ty.fields.types[j])]]
                [] typedef.ty.fields.k = "None" ->
                     [item |-> "struct", name |-> typedef.name, shape |-> "Unit",
                      fields |-> <<>>] >>
      [] typedef.ty.kind = "enum" ->
           << [item |-> "enum", name |-> typedef.name,
               variants |-> Reverse([j \in DOMAIN typedef.ty.variants |->
                               generate_enum_variant(typedef.ty.variants[j])])] >>
      [] OTHER -> <<>>

\* one item per type definition of kind "struct" or "enum", none for any
\* other kind
type_def_items(typedef) ==
    CASE typedef.ty.kind = "struct" ->
           << CASE typedef.ty.fields.k = "Named" ->
                     [item |-> "struct", name |-> typedef.name, shape |-> "Named",
                      fields |-> [j \in DOMAIN typedef.ty.fields.fields |->
                                    field_def(typedef.ty.fields.fields[j])]]
                [] typedef.ty.fields.k = "Tuple" ->
                     [item |-> "struct", name |-> typedef.name, shape |-> "Tuple",
                      fields |-> [j \in DOMAIN typedef.ty.fields.types |->
                                    tuple_member(typedef.ty.fields.types[j])]]
                [] typedef.ty.fields.k = "None" ->
                     [item |-> "struct", name |-> typedef.name, shape |-> "Unit",
                      fields |-> <<>>] >>
      [] typedef.ty.kind = "enum" ->
           << [item |-> "enum", name |-> typedef.name,
               variants |-> [j \in DOMAIN typedef.ty.variants |->
                               generate_enum_variant(typedef.ty.variants[j])]] >>
      [] OTHER -> <<>>

generate_types(types) ==
    Flatten([i \in DOMAIN types |-> type_def_items(types[i])])

\* the (has_accounts, has_args) match of generate_instructions_enum
instruction_variant(ix) ==
    LET has_accounts == ix.accounts # <<>>
        has_args == ix.args # <<>>
        acc == [name |-> "", ty |-> RPath(AccountsStruct(ix))]
        arg == [name |-> "", ty |-> RPath(ArgsStruct(ix))]
    IN  CASE has_accounts /\ has_args ->
               [name |-> Pascal(ix.name), shape |-> "Tuple", fields |-> <<acc, arg>>]
          [] has_accounts /\ ~has_args ->
               [name |-> Pascal(ix.name), shape |-> "Tuple", fields |-> <<acc>>]
          [] ~has_accounts /\ has_args ->
               [name |-> Pascal(ix.name), shape |-> "Tuple", fields |-> <<arg>>]
          [] ~has_accounts /\ ~has_args ->
               [name |-> Pascal(ix.name), shape |-> "Unit", fields |-> <<>>]

\* faulty variant: an instruction without accounts and args gets no case
generate_instructions_enum_payload_only(enum_name, instructions) ==
    [item |-> "enum", name |-> enum_name,
     variants |->
         LET kept == SelectSeq(instructions,
                               LAMBDA ix : ix.accounts # <<>> \/ ix.args # <<>>)
         IN  [i \in DOMAIN kept |-> instruction_variant(kept[i])]]

generate_instructions_enum(enum_name, instructions) ==
    [item |-> "enum", name |-> enum_name,
     variants |-> [i \in DOMAIN instructions |-> instruction_variant(instructions[i])]]

\* faulty variant: has_args is computed from the accounts
match_arm_accounts_twice(ix) ==
    LET has_accounts == ix.accounts # <<>>
        has_args == ix.accounts # <<>>
        acc == [call |-> "from_account_metas", ty |-> AccountsStruct(ix)]
        arg == [call |-> "deserialize", ty |-> ArgsStruct(ix)]
    IN  [pat |-> DiscriminatorConst(ix),
         variant |-> Pascal(ix.name),
         members |-> CASE has_accounts /\ has_args -> <<acc, arg>>
                       [] has_accounts /\ ~has_args -> <<acc>>
                       [] ~has_accounts /\ has_args -> <<arg>>
                       [] ~has_accounts /\ ~has_args -> <<>>]

\* the (has_accounts, has_args) match of generate_deserialize_impl: the
\* pattern of the arm, the variant it builds and the calls that make the
\* variant's members, in evaluation order
match_arm(ix) ==
    LET has_accounts == ix.accounts # <<>>
        has_args == ix.args # <<>>
        acc == [call |-> "from_account_metas", ty |-> AccountsStruct(ix)]
        arg == [call |-> "deserialize", ty |-> ArgsStruct(ix)]
    IN  [pat |-> DiscriminatorConst(ix),
         variant |-> Pascal(ix.name),
         members |-> CASE has_accounts /\ has_args -> <<acc, arg>>
                       [] has_accounts /\ ~has_args -> <<acc>>
                       [] ~has_accounts /\ has_args -> <<arg>>
                       [] ~has_accounts /\ ~has_args -> <<>>]

generate_deserialize_impl(enum_name, instructions) ==
    [item |-> "impl", name |-> enum_name,
     arms |-> [i \in DOMAIN instructions |-> match_arm(instructions[i])]]

generate_idl_code(schema) ==
    LET enum_name == Pascal(schema.metadata.name) \o "Instructions"
    IN  [discriminators |-> generate_discriminators(schema.instructions),
         instruction_structs |-> generate_instruction_structs(schema.instructions),
         types |-> generate_types(schema.types),
         instructions_enum |-> generate_instructions_enum(enum_name, schema.instructions),
         deserialize_impl |-> generate_deserialize_impl(enum_name, schema.instructions)]

(***************************************************************************)
(* The emitted items as the Rust compiler sees them.  The macro hands its  *)
(* token stream to the compiler; the crate builds, and deserialize exists, *)
(* only when the emitted items are well formed.  The checks below are the  *)
(* ones the schemas of this model can fail; repeated field names are not   *)
(* among them.                                                             *)
(***************************************************************************)
\* the types of the standard library and of solana_sdk the emitted code names
RustTypes ==
    {row[2] : row \in PrimitiveTable} \cup {"usize"}

\* all items of the expansion, in emission order (the quote! of
\* generate_idl_code)
Items(gen) ==
    gen.discriminators \o gen.instruction_structs \o gen.types
        \o <<gen.instructions_enum, gen.deserialize_impl>>

\* the struct and enum items: the type namespace of the expansion
TypeItems(gen) == SelectSeq(Items(gen), LAMBDA it : it.item \in {"struct", "enum"})

\* the const items: the value namespace of the expansion
ConstItems(gen) == SelectSeq(Items(gen), LAMBDA it : it.item = "const")

HasTypeItem(gen, n) == \E i \in DOMAIN TypeItems(gen) : TypeItems(gen)[i].name = n

\* the first type item of that name
TypeItem(gen, n) ==
    LET its == TypeItems(gen)
    IN  its[CHOOSE i \in DOMAIN its :
                /\ its[i].name = n
                /\ \A j \in DOMAIN its : its[j].name = n => i <= j]

\* the value of the first const item of that name
ConstValue(gen, n) ==
    LET cs == ConstItems(gen)
    IN  cs[CHOOSE i \in DOMAIN cs :
                /\ cs[i].name = n
                /\ \A j \in DOMAIN cs : cs[j].name = n => i <= j].value

\* the type paths a Rust type names
RECURSIVE PathsOf(_)
PathsOf(ty) == IF ty.k = "Path" THEN {ty.name} ELSE PathsOf(ty.inner)

\* the member lists of a type item: the fields of a struct, the fields of
\* each variant of an enum
MemberLists(it) ==
    IF it.item = "struct" THEN {it.fields}
    ELSE {it.variants[j].fields : j \in DOMAIN it.variants}

\* the type paths an item names
ItemPaths(it) ==
    UNION {UNION {PathsOf(fs[j].ty) : j \in DOMAIN fs} : fs \in MemberLists(it)}

\* E0308 mismatched types: a [u8; N] constant initialised with an array
\* literal of another length (pub const X_DISCRIMINATOR: [u8; 8] = [..])
ArrayLengthErrors(gen) ==
    {i \in DOMAIN gen.discriminators :
        gen.discriminators[i].ty.size # Len(gen.discriminators[i].value)}

\* E0428: a name defined twice in the type namespace or in the value namespace
DuplicateItems(gen) ==
    Clashes(TypeItems(gen)) \cup Clashes(ConstItems(gen))

\* E0412 cannot find type: a path that is neither an emitted struct or enum
\* nor a type the crate's dependencies provide
UnresolvedPaths(gen) ==
    UNION {ItemPaths(TypeItems(gen)[i]) : i \in DOMAIN TypeItems(gen)}
        \ ({TypeItems(gen)[i].name : i \in DOMAIN TypeItems(gen)} \cup RustTypes)

\* E0428: an enum with two variants of one name
DuplicateVariants(gen) ==
    {i \in DOMAIN TypeItems(gen) :
        /\ TypeItems(gen)[i].item = "enum"
        /\ Clashes(TypeItems(gen)[i].variants) # {}}

\* the type paths a Rust type holds in place: Option<T> and [T; N] hold
\* their T in place, Vec<T> holds a pointer
RECURSIVE InPlacePaths(_)
InPlacePaths(ty) ==
    CASE ty.k = "Path" -> {ty.name}
      [] ty.k = "Vec" -> {}
      [] OTHER -> InPlacePaths(ty.inner)

\* the names of the type items that type item n holds in place
HeldInPlace(gen, n) ==
    UNION {UNION {InPlacePaths(fs[j].ty) : j \in DOMAIN fs} :
              fs \in MemberLists(TypeItem(gen, n))}
        \cap {TypeItems(gen)[i].name : i \in DOMAIN TypeItems(gen)}

\* the same through k further items
RECURSIVE HeldWithin(_, _, _)
HeldWithin(gen, names, k) ==
    IF k = 0 THEN names
    ELSE HeldWithin(gen, names \cup UNION {HeldInPlace(gen, m) : m \in names}, k - 1)

\* E0072 recursive type has infinite size: a struct or enum that holds
\* itself in place, through any number of other items
InfiniteSize(gen) ==
    {n \in {TypeItems(gen)[i].name : i \in DOMAIN TypeItems(gen)} :
        n \in HeldWithin(gen, HeldInPlace(gen, n), Len(TypeItems(gen)))}

\* E0308: a match arm of deserialize builds Self::Variant(..) from members
\* whose types are not the declared payload of that variant of the enum
ArmErrors(gen) ==
    LET arms == gen.deserialize_impl.arms
        variants == gen.instructions_enum.variants
    IN  {i \in DOMAIN arms :
            ~ \E j \in DOMAIN variants :
                /\ variants[j].name = arms[i].variant
                /\ [m \in DOMAIN variants[j].fields |-> variants[j].fields[m].ty.name]
                       = [m \in DOMAIN arms[i].members |-> arms[i].members[m].ty]}

CompileErrors(gen) ==
    (IF ArrayLengthErrors(gen) # {} THEN {"E0308 array length"} ELSE {})
    \cup (IF DuplicateItems(gen) # {} \/ DuplicateVariants(gen) # {}
          THEN {"E0428 duplicate definition"} ELSE {})
    \cup (IF InfiniteSize(gen) # {} THEN {"E0072 recursive type"} ELSE {})
    \cup (IF UnresolvedPaths(gen) # {} THEN {"E0412 cannot find type"} ELSE {})
    \cup (IF ArmErrors(gen) # {} THEN {"E0308 variant payload"} ELSE {})

(***************************************************************************)
(* The emitted code as it runs: the derived BorshDeserialize and           *)
(* BorshSerialize of the emitted structs and enums (generator.rs 69, 99,   *)
(* 126, 139, 145, 154), from_account_metas and deserialize.  The codec     *)
(* covers bool and the unsigned integers of 1, 2, 4 and 8 bytes, which are *)
(* the primitives the schemas of this model use.                           *)
(***************************************************************************)
\* an error as the caller receives it: the std::io::ErrorKind, the text of the
\* message and the values formatted into the text
Error(kind, msg, args) == [kind |-> kind, msg |-> msg, args |-> args]
NoError == Error("", "", <<>>)

\* Read::read_exact on a slice that is too short (generator.rs 281)
UnexpectedEof == Error("UnexpectedEof", "failed to fill whole buffer", <<>>)
\* generator.rs 285-288
UnknownDiscriminator == Error("Other", "unknown discriminator", <<>>)
\* generator.rs 77-80
InvalidAccountMetaLength == Error("Other", "invalid account meta length", <<>>)
\* the errors of the derived BorshDeserialize
UnexpectedLength == Error("InvalidData", "Unexpected length of input", <<>>)
InvalidBool(b) == Error("InvalidData", "Invalid bool representation: {}", <<b>>)
InvalidOption(b) ==
    Error("InvalidData",
          "Invalid Option representation: {}. The first byte must be 0 or 1", <<b>>)
InvalidTag(b) == Error("InvalidData", "Unexpected variant tag: {}", <<b>>)
\* the error of BorshDeserialize::try_from_slice, which the emitted code never calls
NotAllBytesRead == Error("InvalidData", "Not all bytes read", <<>>)

DeOk(v, rest) == [ok |-> TRUE, val |-> v, rest |-> rest, err |-> NoError]
DeErr(e) == [ok |-> FALSE, val |-> <<>>, rest |-> <<>>, err |-> e]

UIntWidth(n) ==
    CASE n = "u8" -> 1 [] n = "u16" -> 2 [] n = "u32" -> 4 [] n = "u64" -> 8

UInts == {"u8", "u16", "u32", "u64"}

\* little-endian bytes to the unsigned integer, and back
RECURSIVE FromLE(_)
FromLE(bs) == IF bs = <<>> THEN 0 ELSE Head(bs) + 256 * FromLE(Tail(bs))

RECURSIVE ToLE(_, _)
ToLE(v, w) == IF w = 0 THEN <<>> ELSE <<v % 256>> \o ToLE(v \div 256, w - 1)

Drop(bs, n) == SubSeq(bs, n + 1, Len(bs))

\* faulty variant: no length test, the bytes that are missing read as zero
ReadUInt_padded(w, bs) ==
    DeOk(FromLE([j \in 1 .. w |-> IF j <= Len(bs) THEN bs[j] ELSE 0]), Drop(bs, w))

\* a fixed-width unsigned integer: it fails on fewer than w bytes
ReadUInt(w, bs) ==
    IF Len(bs) < w THEN DeErr(UnexpectedLength)
    ELSE DeOk(FromLE(SubSeq(bs, 1, w)), Drop(bs, w))

RECURSIVE BorshDeserialize(_, _, _)
RECURSIVE DeserializeItem(_, _, _)
RECURSIVE DeserializeFields(_, _, _)
RECURSIVE DeserializeElems(_, _, _, _)

\* a value of Rust type ty read from the front of bs
BorshDeserialize(ty, bs, gen) ==
    CASE ty.k = "Path" /\ HasTypeItem(gen, ty.name) ->
           DeserializeItem(TypeItem(gen, ty.name), bs, gen)
      [] ty.k = "Path" /\ ~HasTypeItem(gen, ty.name) /\ ty.name \in UInts ->
           ReadUInt(UIntWidth(ty.name), bs)
      [] ty.k = "Path" /\ ~HasTypeItem(gen, ty.name) /\ ty.name = "bool" ->
           IF bs = <<>> THEN DeErr(UnexpectedLength)
           ELSE IF bs[1] = 0 THEN DeOk(FALSE, Tail(bs))
           ELSE IF bs[1] = 1 THEN DeOk(TRUE, Tail(bs))
           ELSE DeErr(InvalidBool(bs[1]))
      [] ty.k = "Option" ->
           IF bs = <<>> THEN DeErr(UnexpectedLength)
           ELSE IF bs[1] = 0 THEN DeOk(<<>>, Tail(bs))
           ELSE IF bs[1] = 1
                THEN LET r == BorshDeserialize(ty.inner, Tail(bs), gen)
                     IN  IF r.ok THEN DeOk(<<r.val>>, r.rest) ELSE r
                ELSE DeErr(InvalidOption(bs[1]))
      [] ty.k = "Vec" ->
           LET n == ReadUInt(4, bs)
           IN  IF n.ok THEN DeserializeElems(ty.inner, n.val, n.rest, gen) ELSE n
      [] ty.k = "Array" -> DeserializeElems(ty.inner, ty.size, bs, gen)

\* a struct: its fields in declaration order; an enum: one tag byte, the
\* 0-based position of the variant, then the fields of that variant
DeserializeItem(it, bs, gen) ==
    IF it.item = "struct" THEN DeserializeFields(it.fields, bs, gen)
    ELSE IF bs = <<>> THEN DeErr(UnexpectedLength)
    ELSE IF bs[1] + 1 > Len(it.variants) THEN DeErr(InvalidTag(bs[1]))
    ELSE LET v == it.variants[bs[1] + 1]
             r == DeserializeFields(v.fields, Tail(bs), gen)
         IN  IF r.ok THEN DeOk(<<v.name, r.val>>, r.rest) ELSE r

DeserializeFields(fs, bs, gen) ==
    IF fs = <<>> THEN DeOk(<<>>, bs)
    ELSE LET r == BorshDeserialize(Head(fs).ty, bs, gen)
         IN  IF ~r.ok THEN r
             ELSE LET q == DeserializeFields(Tail(fs), r.rest, gen)
                  IN  IF ~q.ok THEN q
                      ELSE DeOk(<< <<Head(fs).name, r.val>> >> \o q.val, q.rest)

DeserializeElems(ty, n, bs, gen) ==
    IF n = 0 THEN DeOk(<<>>, bs)
    ELSE LET r == BorshDeserialize(ty, bs, gen)
         IN  IF ~r.ok THEN r
             ELSE LET q == DeserializeElems(ty, n - 1, r.rest, gen)
                  IN  IF ~q.ok THEN q ELSE DeOk(<<r.val>> \o q.val, q.rest)

RECURSIVE BorshSerialize(_, _, _)
RECURSIVE SerializeItem(_, _, _)
RECURSIVE SerializeFields(_, _, _)

\* the bytes of value v of Rust type ty
BorshSerialize(ty, v, gen) ==
    CASE ty.k = "Path" /\ HasTypeItem(gen, ty.name) ->
           SerializeItem(TypeItem(gen, ty.name), v, gen)
      [] ty.k = "Path" /\ ~HasTypeItem(gen, ty.name) /\ ty.name \in UInts ->
           ToLE(v, UIntWidth(ty.name))
      [] ty.k = "Path" /\ ~HasTypeItem(gen, ty.name) /\ ty.name = "bool" ->
           IF v THEN <<1>> ELSE <<0>>
      [] ty.k = "Option" ->
           IF v = <<>> THEN <<0>> ELSE <<1>> \o BorshSerialize(ty.inner, v[1], gen)
      [] ty.k = "Vec" ->
           ToLE(Len(v), 4)
               \o Flatten([j \in DOMAIN v |-> BorshSerialize(ty.inner, v[j], gen)])
      [] ty.k = "Array" ->
           Flatten([j \in DOMAIN v |-> BorshSerialize(ty.inner, v[j], gen)])

SerializeItem(it, v, gen) ==
    IF it.item = "struct" THEN SerializeFields(it.fields, v, gen)
    ELSE LET tag == CHOOSE j \in DOMAIN it.variants :
                        /\ it.variants[j].name = v[1]
                        /\ \A m \in DOMAIN it.variants :
                               it.variants[m].name = v[1] => j <= m
         IN  <<tag - 1>> \o SerializeFields(it.variants[tag].fields, v[2], gen)

SerializeFields(fs, v, gen) ==
    Flatten([j \in DOMAIN fs |-> BorshSerialize(fs[j].ty, v[j][2], gen)])

\* the impl block that carries from_account_metas of that Accounts struct
ImplItem(gen, n) ==
    LET its == gen.instruction_structs
    IN  its[CHOOSE i \in DOMAIN its : its[i].item = "impl" /\ its[i].name = n]

\* faulty variant: the length test accepts a list longer than the struct
from_account_metas_at_least(impl, metas, gen) ==
    IF Len(metas) < ConstValue(gen, impl.len_const)
    THEN DeErr(InvalidAccountMetaLength)
    ELSE DeOk([j \in DOMAIN impl.fields |->
                  <<impl.fields[j].name, metas[impl.fields[j].idx + 1].pubkey>>],
              <<>>)

\* faulty variant: an account that did not sign is refused
from_account_metas_signed(impl, metas, gen) ==
    IF Len(metas) # ConstValue(gen, impl.len_const)
    THEN DeErr(InvalidAccountMetaLength)
    ELSE IF \E j \in DOMAIN metas : ~metas[j].is_signer
    THEN DeErr(Error("Other", "missing signature", <<>>))
    ELSE DeOk([j \in DOMAIN impl.fields |->
                  <<impl.fields[j].name, metas[impl.fields[j].idx + 1].pubkey>>],
              <<>>)

\* <Name>Accounts::from_account_metas(metas)
from_account_metas(impl, metas, gen) ==
    IF Len(metas) # ConstValue(gen, impl.len_const)
    THEN DeErr(InvalidAccountMetaLength)
    ELSE DeOk([j \in DOMAIN impl.fields |->
                  <<impl.fields[j].name, metas[impl.fields[j].idx + 1].pubkey>>],
              <<>>)

Ok(variant, members) ==
    [ok |-> TRUE, err |-> NoError, variant |-> variant, members |-> members]
Err(e) == [ok |-> FALSE, err |-> e, variant |-> "", members |-> <<>>]

\* the members of Self::Variant(..) of one match arm, evaluated left to
\* right, each ending the call with its error (the ? operator)
RECURSIVE EvalMembers(_, _, _, _)
\* faulty variant: the members after from_account_metas are evaluated before it
EvalMembers_args_first(ms, metas, reader, gen) ==
    IF ms = <<>> THEN DeOk(<<>>, reader)
    ELSE LET m == Head(ms)
         IN  IF m.call = "from_account_metas"
             THEN LET q == EvalMembers(Tail(ms), metas, reader, gen)
                      r == from_account_metas(ImplItem(gen, m.ty), metas, gen)
                  IN  IF ~q.ok THEN q
                      ELSE IF ~r.ok THEN r
                      ELSE DeOk(<<[ty |-> m.ty, val |-> r.val]>> \o q.val, q.rest)
             ELSE LET r == BorshDeserialize(RPath(m.ty), reader, gen)
                  IN  IF ~r.ok THEN r
                      ELSE LET q == EvalMembers(Tail(ms), metas, r.rest, gen)
                           IN  IF ~q.ok THEN q
                               ELSE DeOk(<<[ty |-> m.ty, val |-> r.val]>> \o q.val,
                                         q.rest)

EvalMembers(ms, metas, reader, gen) ==
    IF ms = <<>> THEN DeOk(<<>>, reader)
    ELSE LET m == Head(ms)
             r == IF m.call = "from_account_metas"
                  THEN from_account_metas(ImplItem(gen, m.ty), metas, gen)
                  ELSE BorshDeserialize(RPath(m.ty), reader, gen)
             left == IF m.call = "from_account_metas" THEN reader ELSE r.rest
         IN  IF ~r.ok THEN r
             ELSE LET q == EvalMembers(Tail(ms), metas, left, gen)
                  IN  IF ~q.ok THEN q
                      ELSE DeOk(<<[ty |-> m.ty, val |-> r.val]>> \o q.val, q.rest)

\* faulty variant: the reader is left on the last byte of the discriminator
read_exact_behind(data) ==
    IF Len(data) < 8 THEN DeErr(UnexpectedEof)
    ELSE DeOk(SubSeq(data, 1, 8), Drop(data, 7))

\* faulty variant: Read::read in place of read_exact, the missing bytes left zero
read_exact_short(data) ==
    DeOk([j \in 1 .. 8 |-> IF j <= Len(data) THEN data[j] ELSE 0], Drop(data, 8))

\* let mut reader = buf; reader.read_exact(&mut maybe_discm)?: the 8 bytes
\* read and the reader after them
read_exact(data) ==
    IF Len(data) < 8 THEN DeErr(UnexpectedEof)
    ELSE DeOk(SubSeq(data, 1, 8), Drop(data, 8))

\* faulty variant: the comparison leaves the last byte out
MatchingArms7(gen, maybe_discm) ==
    {i \in DOMAIN gen.deserialize_impl.arms :
        SubSeq(ConstValue(gen, gen.deserialize_impl.arms[i].pat), 1, 7)
            = SubSeq(maybe_discm, 1, 7)}

\* the arms of match maybe_discm whose constant equals the 8 bytes read
MatchingArms(gen, maybe_discm) ==
    {i \in DOMAIN gen.deserialize_impl.arms :
        ConstValue(gen, gen.deserialize_impl.arms[i].pat) = maybe_discm}

\* faulty variant: the arm takes the args with try_from_slice, which refuses bytes
\* left over, and a unit arm refuses a reader that is not empty
match_maybe_discm_whole(gen, metas, maybe_discm, reader) ==
    LET hits == MatchingArms(gen, maybe_discm)
    IN  IF hits = {} THEN Err(UnknownDiscriminator)
        ELSE LET arm == gen.deserialize_impl.arms[
                            CHOOSE i \in hits : \A j \in hits : i <= j]
                 r == EvalMembers(arm.members, metas, reader, gen)
             IN  IF ~r.ok THEN Err(r.err)
                 ELSE IF r.rest # <<>> THEN Err(NotAllBytesRead)
                 ELSE Ok(arm.variant, r.val)

\* faulty variant: an arm that takes no accounts refuses a list that is not empty
match_maybe_discm_no_extra(gen, metas, maybe_discm, reader) ==
    LET hits == MatchingArms(gen, maybe_discm)
    IN  IF hits = {} THEN Err(UnknownDiscriminator)
        ELSE LET arm == gen.deserialize_impl.arms[
                            CHOOSE i \in hits : \A j \in hits : i <= j]
                 r == EvalMembers(arm.members, metas, reader, gen)
             IN  IF metas # <<>>
                    /\ \A m \in DOMAIN arm.members :
                           arm.members[m].call # "from_account_metas"
                 THEN Err(InvalidAccountMetaLength)
                 ELSE IF r.ok THEN Ok(arm.variant, r.val) ELSE Err(r.err)

\* faulty variant: of the arms whose constant equals the 8 bytes the last is taken
match_maybe_discm_last(gen, metas, maybe_discm, reader) ==
    LET hits == MatchingArms(gen, maybe_discm)
    IN  IF hits = {} THEN Err(UnknownDiscriminator)
        ELSE LET arm == gen.deserialize_impl.arms[
                            CHOOSE i \in hits : \A j \in hits : i >= j]
                 r == EvalMembers(arm.members, metas, reader, gen)
             IN  IF r.ok THEN Ok(arm.variant, r.val) ELSE Err(r.err)

\* match maybe_discm { arms, _ => Err("unknown discriminator") }: the first
\* arm whose constant equals the 8 bytes builds its variant from the account
\* metas and from the reader; what the reader has left is dropped
match_maybe_discm(gen, metas, maybe_discm, reader) ==
    LET hits == MatchingArms(gen, maybe_discm)
    IN  IF hits = {} THEN Err(UnknownDiscriminator)
        ELSE LET arm == gen.deserialize_impl.arms[
                            CHOOSE i \in hits : \A j \in hits : i <= j]
                 r == EvalMembers(arm.members, metas, reader, gen)
             IN  IF r.ok THEN Ok(arm.variant, r.val) ELSE Err(r.err)

\* <Program>Instructions::deserialize(accounts, buf)
deserialize(gen, metas, data) ==
    IF ~read_exact(data).ok THEN Err(read_exact(data).err)
    ELSE match_maybe_discm(gen, metas, read_exact(data).val, read_exact(data).rest)

(***************************************************************************)
(* The schemas, buffers, account lists and argument values of the model.   *)
(***************************************************************************)
\* the discriminator of "buy", one that differs from it in the last byte
\* only, one no instruction of the model carries, and a 7 and a 9 byte one
BuyDisc == <<102, 6, 61, 18, 1, 218, 235, 234>>
SellDisc == <<102, 6, 61, 18, 1, 218, 235, 173>>
OtherDisc == <<102, 6, 61, 18, 1, 218, 235, 0>>
ShortDisc == SubSeq(BuyDisc, 1, 7)
LongDisc == BuyDisc \o <<0>>

U8 == Primitive("u8")

AccountLists ==
    { <<>>,
      <<IdlInstructionAccount("user")>>,
      <<IdlInstructionAccount("user"), IdlInstructionAccount("poolAuthority")>> }

ArgLists ==
    { <<>>,
      <<IdlField("amount", Primitive("u64"))>>,
      <<IdlField("side", Defined("Side")), IdlField("maxFee", OptionOf(U8))>> }

SideEnum ==
    IdlTypeDef("Side", "enum", FieldsNone,
               <<IdlEnumVariant("Bid", FieldsNone), IdlEnumVariant("Ask", FieldsNone),
                 IdlEnumVariant("Both", FieldsNone)>>)

OrderEnum ==
    IdlTypeDef("Order", "enum", FieldsNone,
               <<IdlEnumVariant("Market", FieldsNone),
                 IdlEnumVariant("Limit", FieldsTuple(<<Primitive("u16")>>)),
                 IdlEnumVariant("Stop", FieldsNamed(<<IdlField("a", U8)>>))>>)

PairStruct ==
    IdlTypeDef("Pair", "struct",
               FieldsNamed(<<IdlField("a", U8), IdlField("b", Defined("Side"))>>), <<>>)

PairTuple == IdlTypeDef("Pair", "struct", FieldsTuple(<<U8, Primitive("bool")>>), <<>>)

PairAlias == IdlTypeDef("Pair", "alias", FieldsNone, <<>>)

MarkerStruct == IdlTypeDef("Marker", "struct", FieldsNone, <<>>)

FeeTier == IdlTypeDef("fee_tier", "struct", FieldsTuple(<<U8>>), <<>>)

\* a struct Node whose one field is of type t
Node(t) == IdlTypeDef("Node", "struct", FieldsNamed(<<IdlField("inner", t)>>), <<>>)

Link == IdlTypeDef("Link", "struct", FieldsTuple(<<Defined("Node")>>), <<>>)

\* the lists of types in which Node refers to itself
RecursiveTypeLists ==
    { <<Node(Defined("Node"))>>, <<Node(ArrayOf(Defined("Node"), 2))>>,
      <<Node(Defined("Link")), Link>>, <<Node(OptionOf(Defined("Node")))>>,
      <<Node(VecOf(Defined("Node")))>>, <<Node(VecOf(Defined("Link"))), Link>>,
      <<Node(OptionOf(VecOf(Defined("Node"))))>>, <<Node(U8), Link>> }

\* the schemas that vary the instructions over one list of types
FirstInstructions ==
    {IdlInstruction("buy", d, a, g) :
        d \in {BuyDisc, ShortDisc, LongDisc}, a \in AccountLists, g \in ArgLists}

SecondInstructions ==
    {IdlInstruction("sell_all", d, ag[1], ag[2]) :
        d \in {SellDisc, BuyDisc},
        ag \in { << <<>>, <<>> >>,
                 << <<IdlInstructionAccount("poolAuthority"),
                      IdlInstructionAccount("user")>>,
                    <<IdlField("a", U8)>> >> }}
        \cup {IdlInstruction("Buy", SellDisc, <<>>, <<>>)}

InstructionSchemas ==
    {Idl("pump_amm", <<i1>> \o rest, <<SideEnum>>) :
        i1 \in FirstInstructions,
        rest \in {<<>>} \cup {<<i2>> : i2 \in SecondInstructions}}

\* the schemas that vary the types under one instruction
TypeLists ==
    { <<>>, <<SideEnum>>, <<PairStruct, SideEnum>>, <<SideEnum, PairStruct>>,
      <<SideEnum, PairStruct, PairTuple>>, <<SideEnum, PairStruct, PairAlias>>,
      <<SideEnum, PairAlias>>, <<SideEnum, SideEnum>>,
      <<OrderEnum, MarkerStruct, PairTuple>>,
      <<FeeTier, PairStruct, SideEnum>>, <<SideEnum, FeeTier, PairStruct>> }

ArgTypes ==
    { Defined("Pair"), Defined("Missing"), Defined("u8"), Defined("Order"),
      ArrayOf(Defined("Side"), 2), OptionOf(ArrayOf(Defined("Missing"), 2)),
      VecOf(Defined("Side")), Primitive("Side"), Defined("fee_tier") }

TypeSchemas ==
    {Idl("pump_amm",
         <<IdlInstruction("buy", BuyDisc, <<IdlInstructionAccount("user")>>,
                          <<IdlField("inner", t)>>)>>,
         tys) :
        t \in ArgTypes, tys \in TypeLists}

\* the schemas whose types refer to themselves, under one instruction
RecursiveSchemas ==
    {Idl("pump_amm",
         <<IdlInstruction("buy", BuyDisc, <<IdlInstructionAccount("user")>>, <<>>)>>,
         tys) :
        tys \in RecursiveTypeLists}

Idls == InstructionSchemas \cup TypeSchemas \cup RecursiveSchemas

\* documents that leave members out: args, the flags of an account, types
SparseDocuments ==
    { [address |-> "pAMMBay6oceH9fJKBRHGP5D4bD4sWpmSwMn52FMfXEA",
       metadata |-> [name |-> "pump_amm", version |-> "0.1.0"],
       instructions |->
           << [name |-> "buy", discriminator |-> BuyDisc, accounts |-> a] >> \o rest] :
        a \in {<<>>, <<[name |-> "user"], [name |-> "poolAuthority", signer |-> TRUE]>>},
        rest \in {<<>>,
                  << [name |-> "sell_all", discriminator |-> SellDisc,
                      accounts |-> <<>>, args |-> <<IdlField("amount", Primitive("u64"))>>] >>} }

\* the record d without its member k, and with a further member k
Without(d, k) == [x \in DOMAIN d \ {k} |-> d[x]]
With(d, k, v) == [x \in DOMAIN d \cup {k} |-> IF x = k THEN v ELSE d[x]]

\* the document the others are made from: every member spelled out
PlainDocument ==
    Idl("pump_amm",
        <<IdlInstruction("buy", BuyDisc, <<IdlInstructionAccount("user")>>, <<>>)>>,
        <<SideEnum>>)

\* documents with members the structs of parser.rs do not name: at the top,
\* in the metadata, in an instruction, in an account, and in all of them
ExtraDocuments ==
    LET top(d) == With(d, "docs", <<"Pump AMM">>)
        meta(d) == [d EXCEPT !.metadata = With(@, "contact", "none")]
        ix(d) == [d EXCEPT !.instructions[1] = With(@, "returns", "u64")]
        acc(d) == [d EXCEPT !.instructions[1].accounts[1] = With(@, "isMut", TRUE)]
        sparse == [address |-> PlainDocument.address,
                   metadata |-> PlainDocument.metadata,
                   instructions |-> <<[name |-> "buy", discriminator |-> BuyDisc,
                                       accounts |-> <<[name |-> "user"]>>]>>]
    IN  {top(PlainDocument), meta(PlainDocument), ix(PlainDocument),
         acc(PlainDocument), top(meta(ix(acc(PlainDocument)))),
         top(acc(sparse))}

\* documents that leave out a member that has no default
MalformedDocuments ==
    {Without(PlainDocument, k) : k \in {"address", "metadata", "instructions"}}
        \cup {[PlainDocument EXCEPT !.metadata = Without(@, k)] :
                  k \in {"name", "version"}}
        \cup {[PlainDocument EXCEPT !.instructions[1] = Without(@, k)] :
                  k \in {"name", "discriminator", "accounts"}}
        \cup {[PlainDocument EXCEPT !.instructions[1].accounts[1] = Without(@, "name")]}
        \cup {[Without(PlainDocument, "types") EXCEPT
                   !.instructions[1] = With(Without(@, "discriminator"), "returns", "u64")]}

\* the documents of the model: those that spell every member out, which are
\* records of the shape of their parsed Idl, the sparse ones, those with
\* further members and those with members missing
Documents == Idls \cup SparseDocuments \cup ExtraDocuments \cup MalformedDocuments

\* the bytes raw buffers are made of: 0 and 1 are the valid flags of bool
\* and Option, 3 is no flag and no tag of an enum of three variants
ByteVals == {0, 1, 3}

Tails == SeqsUpTo(ByteVals, MaxTail)

\* the bytes of a Vec: a length of up to MaxVec + 1 as u32, then up to
\* MaxVec bytes, each the tag of a variant of an enum of three or no tag
PrefixedTails ==
    {ToLE(n, 4) \o t : n \in 0 .. MaxVec + 1, t \in SeqsUpTo({0, 2, 3}, MaxVec)}

\* raw buffers: the prefixes of a discriminator, and 8 leading bytes that
\* are or are not a discriminator followed by a tail
Buffers ==
    {SubSeq(BuyDisc, 1, n) : n \in 0 .. 7}
        \cup {d \o t : d \in {BuyDisc, SellDisc, OtherDisc}, t \in Tails}
        \cup {BuyDisc \o t : t \in PrefixedTails}

\* solana_program::instruction::AccountMeta
AccountMeta(p) == [pubkey |-> p, is_signer |-> FALSE, is_writable |-> FALSE]
AccountMetaOf(p, s, w) == [pubkey |-> p, is_signer |-> s, is_writable |-> w]

Pubkeys == {"PubkeyA", "PubkeyB"}

\* the lists of a raw call: of every length up to MaxMetas, neighbours with
\* different pubkeys
MetaLists ==
    {[j \in 1 .. k |-> AccountMeta(IF j % 2 = 1 THEN "PubkeyA" ELSE "PubkeyB")] :
        k \in 0 .. MaxMetas}

\* the values of the unsigned integers the callers of the model encode
UIntValues(n) ==
    CASE n = "u8" -> {0, 255}
      [] n = "u16" -> {258, 65535}
      [] n = "u32" -> {16909060}
      [] n = "u64" -> {42, 258}

RECURSIVE Values(_, _)
RECURSIVE FieldsValues(_, _)

\* values of Rust type ty, in the shape BorshDeserialize returns them
Values(ty, gen) ==
    CASE ty.k = "Path" /\ HasTypeItem(gen, ty.name) ->
           LET it == TypeItem(gen, ty.name)
           IN  IF it.item = "struct" THEN FieldsValues(it.fields, gen)
               ELSE UNION {{<<it.variants[j].name, fv>> :
                               fv \in FieldsValues(it.variants[j].fields, gen)} :
                           j \in DOMAIN it.variants}
      [] ty.k = "Path" /\ ~HasTypeItem(gen, ty.name) /\ ty.name \in UInts ->
           UIntValues(ty.name)
      [] ty.k = "Path" /\ ~HasTypeItem(gen, ty.name) /\ ty.name = "bool" -> BOOLEAN
      [] ty.k = "Option" -> {<<>>} \cup {<<v>> : v \in Values(ty.inner, gen)}
      [] ty.k = "Vec" -> SeqsUpTo(Values(ty.inner, gen), MaxVec)
      [] ty.k = "Array" -> [1 .. ty.size -> Values(ty.inner, gen)]

FieldsValues(fs, gen) ==
    IF fs = <<>> THEN {<<>>}
    ELSE {<< <<Head(fs).name, v>> >> \o rest :
             v \in Values(Head(fs).ty, gen), rest \in FieldsValues(Tail(fs), gen)}

\* what a caller encodes for instruction ix: a value of its Args struct, or
\* nothing when the instruction has no args
ArgsValues(ix, gen) ==
    IF ix.args = <<>> THEN {<<>>} ELSE Values(RPath(ArgsStruct(ix)), gen)

\* the instruction data a caller builds: the discriminator constant, then
\* the Borsh bytes of the Args value
Payload(ix, v, gen) ==
    ConstValue(gen, DiscriminatorConst(ix))
        \o (IF ix.args = <<>> THEN <<>>
            ELSE BorshSerialize(RPath(ArgsStruct(ix)), v, gen))

NoCall == [ix |-> 0, args |-> <<>>]
\* no transaction message is at hand
NoTx == <<>>
NoResult == Err(NoError)

(***************************************************************************)
(* The state machine: the macro expands, the compiler checks the           *)
(* expansion, and the built crate calls deserialize.                       *)
(***************************************************************************)
NoIdl == Idl("", <<>>, <<>>)

Init ==
    /\ document \in Documents
    /\ idl = NoIdl
    /\ frames = <<>>
    /\ stream = <<>>
    /\ outcomes = <<>>
    /\ generated = <<>>
    /\ errors = {}
    /\ accounts = <<>>
    /\ buf = <<>>
    /\ sent = NoCall
    /\ result = NoResult
    /\ tx = NoTx
    /\ pc = "source"

\* parse_idl!: the document is parsed and the parsed Idl becomes the token
\* stream of generate_idl_code
ParseIdl ==
    /\ pc = "source"
    /\ IF from_str(document).ok
       THEN /\ idl' = from_str(document).val
            /\ generated' = generate_idl_code(idl')
            /\ errors' = errors
            /\ pc' = "expanded"
       ELSE /\ errors' = {"Failed to parse IDL"}
            /\ pc' = "rejected"
            /\ UNCHANGED <<idl, generated>>
    /\ UNCHANGED <<document, accounts, buf, sent, result,
                   frames, stream, outcomes, tx>>

\* the compiler checks the items of the expansion
Compile ==
    /\ pc = "expanded"
    /\ errors' = CompileErrors(generated)
    /\ pc' = IF errors' = {} THEN "built" ELSE "rejected"
    /\ UNCHANGED <<document, idl, generated, accounts, buf, sent, result,
                   frames, stream, outcomes, tx>>

\* one call of <Program>Instructions::deserialize
Deserialize(metas, data, call) ==
    /\ accounts' = metas
    /\ buf' = data
    /\ sent' = call
    /\ result' = deserialize(generated, metas, data)
    /\ pc' = "returned"
    /\ UNCHANGED <<document, idl, generated, errors, frames, stream, outcomes, tx>>

\* a call on arbitrary accounts and bytes
DeserializeRaw ==
    /\ pc = "built"
    /\ \E metas \in MetaLists, data \in Buffers : Deserialize(metas, data, NoCall)

\* a call on what a caller encoded for instruction i: as many accounts as
\* the instruction declares and the payload of an Args value
DeserializeEncoded ==
    /\ pc = "built"
    /\ \E i \in DOMAIN idl.instructions :
         \E v \in ArgsValues(idl.instructions[i], generated),
            metas \in [1 .. Len(idl.instructions[i].accounts) ->
                          {AccountMeta(p) : p \in Pubkeys}] :
             Deserialize(metas, Payload(idl.instructions[i], v, generated),
                         [ix |-> i, args |-> v])

\* a call on what a caller encoded for instruction i, cut short: the
\* discriminator and fewer bytes than the Args value takes
DeserializeTruncated ==
    /\ pc = "built"
    /\ \E i \in DOMAIN idl.instructions :
         \E v \in ArgsValues(idl.instructions[i], generated),
            metas \in [1 .. Len(idl.instructions[i].accounts) ->
                          {AccountMeta(p) : p \in Pubkeys}] :
             \E n \in 8 .. Len(Payload(idl.instructions[i], v, generated)) - 1 :
                 Deserialize(metas,
                             SubSeq(Payload(idl.instructions[i], v, generated), 1, n),
                             NoCall)

Next ==
    ParseIdl \/ Compile \/ DeserializeRaw \/ DeserializeEncoded \/ DeserializeTruncated

Spec == Init /\ [][Next]_vars

(***************************************************************************)
(* Callers that run deserialize at the same time.  deserialize is a plain  *)
(* associated function: its parameters accounts and buf and its locals     *)
(* reader and maybe_discm (generator.rs 276-281) live in the frame of the  *)
(* call, the discriminator constants and the arms are immutable items.  A  *)
(* call goes in two steps, the read of the 8 bytes and the match, and the  *)
(* steps of different callers interleave freely.                           *)
(***************************************************************************)
Callers == 1 .. MaxCallers

IdleFrame ==
    [at |-> "idle", accounts |-> <<>>, buf |-> <<>>, maybe_discm |-> <<>>,
     reader |-> <<>>, result |-> NoResult]

\* the documents the callers share
CallerDocuments ==
    {Idl("pump_amm", <<i1>> \o rest, <<SideEnum>>) :
        i1 \in {IdlInstruction("buy", BuyDisc, <<IdlInstructionAccount("user")>>, g) :
                    g \in ArgLists},
        rest \in {<<>>, <<IdlInstruction("sell_all", SellDisc, <<>>, <<>>)>>}}

\* what the callers pass: the spec's example payload, the same cut to its 8
\* bytes, with a byte after it, with no account, another discriminator, a
\* buffer of 7 bytes, and an enum tag with an Option flag
CallInputs ==
    { << <<AccountMeta("PubkeyA")>>, BuyDisc \o ToLE(42, 8) >>,
      << <<AccountMeta("PubkeyB")>>, BuyDisc >>,
      << <<AccountMeta("PubkeyB")>>, BuyDisc \o ToLE(258, 8) \o <<1>> >>,
      << <<>>, BuyDisc \o ToLE(42, 8) >>,
      << <<AccountMeta("PubkeyA")>>, SellDisc >>,
      << <<AccountMeta("PubkeyA")>>, ShortDisc >>,
      << <<AccountMeta("PubkeyA")>>, BuyDisc \o <<2, 0>> >> }

\* faulty variant: maybe_discm and reader are one static shared by all callers
frame_static(fs, c) == fs[1]

\* the frame of the call caller c is in
frame(fs, c) == fs[c]

\* caller c enters deserialize: let mut reader = buf; read_exact(..)?
CallRead(c) ==
    /\ pc = "built"
    /\ frames[c].at \in {"idle", "returned"}
    /\ \E in \in CallInputs :
         LET r == read_exact(in[2])
         IN  frames' = [frames EXCEPT ![c] =
                 IF r.ok
                 THEN [at |-> "read", accounts |-> in[1], buf |-> in[2],
                       maybe_discm |-> r.val, reader |-> r.rest, result |-> NoResult]
                 ELSE [at |-> "returned", accounts |-> in[1], buf |-> in[2],
                       maybe_discm |-> <<>>, reader |-> <<>>, result |-> Err(r.err)]]
    /\ UNCHANGED <<document, idl, generated, errors, accounts, buf, sent, result, pc,
                   stream, outcomes, tx>>

\* caller c goes through the match and returns
CallMatch(c) ==
    /\ pc = "built"
    /\ frames[c].at = "read"
    /\ frames' = [frames EXCEPT ![c] =
           [@ EXCEPT !.at = "returned",
                     !.result = match_maybe_discm(generated, frames[c].accounts,
                                                  frame(frames, c).maybe_discm,
                                                  frame(frames, c).reader)]]
    /\ UNCHANGED <<document, idl, generated, errors, accounts, buf, sent, result, pc,
                   stream, outcomes, tx>>

CallersInit ==
    /\ document \in CallerDocuments
    /\ idl = NoIdl
    /\ frames = [c \in Callers |-> IdleFrame]
    /\ stream = <<>>
    /\ outcomes = <<>>
    /\ generated = <<>>
    /\ errors = {}
    /\ accounts = <<>>
    /\ buf = <<>>
    /\ sent = NoCall
    /\ result = NoResult
    /\ tx = NoTx
    /\ pc = "source"

CallersNext ==
    ParseIdl \/ Compile \/ (\E c \in Callers : CallRead(c))
        \/ (\E c \in Callers : CallMatch(c))

CallersSpec == CallersInit /\ [][CallersNext]_vars

(***************************************************************************)
(* The caller of example/src/main.rs: the instructions of a transaction    *)
(* are handed to deserialize one after another by for_each (348-388 for    *)
(* the compiled instructions, 389-429 for the inner ones).  outcomes keeps *)
(* what each call returned.                                                *)
(***************************************************************************)
StreamDocuments ==
    {Idl("pump_amm",
         <<IdlInstruction("buy", BuyDisc, <<IdlInstructionAccount("user")>>, g)>>,
         <<SideEnum>>) :
        g \in {<<IdlField("amount", Primitive("u64"))>>, <<>>}}

\* an instruction of a transaction: its account metas and its data
StreamItems == {[accounts |-> in[1], data |-> in[2]] : in \in CallInputs}

Streams == UNION {[1 .. k -> StreamItems] : k \in 1 .. MaxStream}

\* faulty variant: an Err ends the loop, as `?`, unwrap or break would
after_item_stop(r, k, n) == IF ~r.ok \/ k = n THEN "done" ELSE "streaming"

\* where the loop stands after item k of n returned r: both arms of the
\* match, Ok(decoded_ix) => .. and Err(_) => {}, fall through to the next item
after_item(r, k, n) == IF k = n THEN "done" ELSE "streaming"

\* the body of for_each on the next instruction
ForEach ==
    /\ pc \in {"built", "streaming"}
    /\ Len(outcomes) < Len(stream)
    /\ LET k == Len(outcomes) + 1
           r == deserialize(generated, stream[k].accounts, stream[k].data)
       IN  /\ accounts' = stream[k].accounts
           /\ buf' = stream[k].data
           /\ result' = r
           /\ outcomes' = Append(outcomes, r)
           /\ pc' = after_item(r, k, Len(stream))
    /\ UNCHANGED <<document, idl, generated, errors, sent, frames, stream, tx>>

StreamInit ==
    /\ document \in StreamDocuments
    /\ idl = NoIdl
    /\ frames = <<>>
    /\ stream \in Streams
    /\ outcomes = <<>>
    /\ generated = <<>>
    /\ errors = {}
    /\ accounts = <<>>
    /\ buf = <<>>
    /\ sent = NoCall
    /\ result = NoResult
    /\ tx = NoTx
    /\ pc = "source"

StreamNext == ParseIdl \/ Compile \/ ForEach

StreamSpec == StreamInit /\ [][StreamNext]_vars

(***************************************************************************)
(* Callers whose account metas carry every combination of is_signer and    *)
(* is_writable, on schemas whose accounts are declared signer and          *)
(* writable.                                                               *)
(***************************************************************************)
SignerAccount(n) == [name |-> n, writable |-> TRUE, signer |-> TRUE, optional |-> FALSE]

FlagDocuments ==
    {Idl("pump_amm",
         <<IdlInstruction("buy", BuyDisc, a, g)>> \o rest, <<SideEnum>>) :
        a \in {<<SignerAccount("user")>>,
               <<SignerAccount("user"), IdlInstructionAccount("poolAuthority")>>},
        g \in {<<>>, <<IdlField("amount", Primitive("u64"))>>},
        rest \in {<<>>, <<IdlInstruction("sell_all", SellDisc, <<>>, <<>>)>>}}

\* the lists of up to MaxFlagged metas, neighbours with different pubkeys,
\* under every setting of the flags
FlaggedMetaLists ==
    UNION {{[j \in 1 .. k |->
                AccountMetaOf(IF j % 2 = 1 THEN "PubkeyA" ELSE "PubkeyB", s[j], w[j])] :
               s \in [1 .. k -> BOOLEAN], w \in [1 .. k -> BOOLEAN]} :
           k \in 0 .. MaxFlagged}

FlagBuffers == {BuyDisc \o ToLE(42, 8), BuyDisc, SellDisc, OtherDisc, ShortDisc}

\* a call on account metas of any flags
DeserializeFlagged ==
    /\ pc = "built"
    /\ \E metas \in FlaggedMetaLists, data \in FlagBuffers :
         Deserialize(metas, data, NoCall)

FlagsInit ==
    /\ document \in FlagDocuments
    /\ idl = NoIdl
    /\ frames = <<>>
    /\ stream = <<>>
    /\ outcomes = <<>>
    /\ generated = <<>>
    /\ errors = {}
    /\ accounts = <<>>
    /\ buf = <<>>
    /\ sent = NoCall
    /\ result = NoResult
    /\ tx = NoTx
    /\ pc = "source"

FlagsNext == ParseIdl \/ Compile \/ DeserializeFlagged

FlagsSpec == FlagsInit /\ [][FlagsNext]_vars

(***************************************************************************)
(* The account list of example/src/main.rs: parse_transaction_accounts     *)
(* turns the static keys of a message and the loaded addresses into        *)
(* account metas (529-579), and compiled_instruction_to_instruction picks  *)
(* the metas of one instruction by index (501-527).  The counts of the     *)
(* header are the u8 of the message as received; they are widened to usize *)
(* (64 bits) and subtracted unchecked.  A usize subtraction whose result   *)
(* would be negative panics when the build has overflow checks and wraps   *)
(* modulo 2^64 when it has none; the build profile is not in the           *)
(* repository, so both are outcomes.                                       *)
(***************************************************************************)
MessageHeader(required, readonly_signed, readonly_unsigned) ==
    [num_required_signatures |-> required,
     num_readonly_signed_accounts |-> readonly_signed,
     num_readonly_unsigned_accounts |-> readonly_unsigned]

\* index < a - b in usize without overflow checks: when b > a the difference
\* wraps to 2^64 - (b - a), which is above every index of a list of keys
LessThanDifference(index, a, b) == IF a >= b THEN index < a - b ELSE TRUE

\* the subtractions evaluated for the key at index (from 0): the first
\* always, the second when the first comparison is false and index is not
\* below the required signatures (|| and && evaluate left to right)
Subtractions(index, header, total_accounts) ==
    << <<header.num_required_signatures, header.num_readonly_signed_accounts>> >>
    \o (IF ~LessThanDifference(index, header.num_required_signatures,
                                header.num_readonly_signed_accounts)
           /\ index >= header.num_required_signatures
        THEN << <<total_accounts, header.num_readonly_unsigned_accounts>> >>
        ELSE <<>>)

\* some subtraction evaluated for some key has a negative result
Underflows(header, total_accounts) ==
    \E index \in 0 .. total_accounts - 1 :
        \E k \in DOMAIN Subtractions(index, header, total_accounts) :
            Subtractions(index, header, total_accounts)[k][1]
                < Subtractions(index, header, total_accounts)[k][2]

is_writable(index, header, total_accounts) ==
    \/ LessThanDifference(index, header.num_required_signatures,
                          header.num_readonly_signed_accounts)
    \/ /\ index >= header.num_required_signatures
       /\ LessThanDifference(index, total_accounts,
                             header.num_readonly_unsigned_accounts)

\* parse_transaction_accounts(message, loaded_addresses) of a build with or
\* without overflow checks
parse_transaction_accounts(message, loaded_addresses, overflow_checks) ==
    LET keys == message.static_account_keys
        total_accounts == Len(keys)
    IN  IF overflow_checks /\ Underflows(message.header, total_accounts)
        THEN [panic |-> "attempt to subtract with overflow", val |-> <<>>]
        ELSE [panic |-> "",
              val |-> [j \in DOMAIN keys |->
                         AccountMetaOf(keys[j],
                                       j - 1 < message.header.num_required_signatures,
                                       is_writable(j - 1, message.header, total_accounts))]
                      \o [j \in DOMAIN loaded_addresses.writable |->
                             AccountMetaOf(loaded_addresses.writable[j], FALSE, TRUE)]
                      \o [j \in DOMAIN loaded_addresses.readonly |->
                             AccountMetaOf(loaded_addresses.readonly[j], FALSE, FALSE)]]

\* compiled_instruction_to_instruction(ci, parsed_accounts)
compiled_instruction_to_instruction(ci, parsed_accounts) ==
    IF ci.program_id_index >= Len(parsed_accounts)
    THEN [panic |-> "index out of bounds", val |-> <<>>]
    ELSE IF \E j \in DOMAIN ci.accounts : ci.accounts[j] >= Len(parsed_accounts)
    THEN [panic |-> "Trying to resolve account", val |-> <<>>]
    ELSE [panic |-> "",
          val |-> [program_id |-> parsed_accounts[ci.program_id_index + 1].pubkey,
                   accounts |-> [j \in DOMAIN ci.accounts |->
                                   parsed_accounts[ci.accounts[j] + 1]],
                   data |-> ci.data]]

\* the messages of the model: every header of counts up to MaxHeader over
\* up to MaxKeys static keys, with or without loaded addresses
Messages ==
    {[header |-> MessageHeader(r, s, u),
      static_account_keys |-> [j \in 1 .. n |-> <<"Key", j>>]] :
        r \in 0 .. MaxHeader, s \in 0 .. MaxHeader, u \in 0 .. MaxHeader,
        n \in 0 .. MaxKeys}

LoadedAddresses ==
    {[writable |-> w, readonly |-> r] :
        w \in {<<>>, << <<"LoadedWritable", 1>> >>},
        r \in {<<>>, << <<"LoadedReadonly", 1>> >>}}

CompiledInstructions ==
    {[program_id_index |-> p, accounts |-> a, data |-> BuyDisc] :
        p \in {0, 1}, a \in {<<>>, <<0>>, <<1, 0>>, <<MaxKeys + 2>>}}

\* let parsed_accounts = parse_transaction_accounts(..)
ParseTransactionAccounts ==
    /\ pc = "message"
    /\ \E overflow_checks \in BOOLEAN :
         LET r == parse_transaction_accounts(tx.message, tx.loaded_addresses,
                                             overflow_checks)
         IN  /\ tx' = [tx EXCEPT !.overflow_checks = overflow_checks,
                                 !.panic = r.panic,
                                 !.parsed_accounts = r.val]
             /\ pc' = IF r.panic = "" THEN "parsed" ELSE "panicked"
    /\ UNCHANGED <<document, idl, generated, errors, accounts, buf, sent, result,
                   frames, stream, outcomes>>

\* the instruction handed to deserialize: its accounts and its data
CompiledInstructionToInstruction ==
    /\ pc = "parsed"
    /\ \E ci \in CompiledInstructions :
         LET r == compiled_instruction_to_instruction(ci, tx.parsed_accounts)
         IN  /\ tx' = [tx EXCEPT !.panic = r.panic]
             /\ accounts' = IF r.panic = "" THEN r.val.accounts ELSE accounts
             /\ buf' = IF r.panic = "" THEN r.val.data ELSE buf
             /\ pc' = IF r.panic = "" THEN "resolved" ELSE "panicked"
    /\ UNCHANGED <<document, idl, generated, errors, sent, result,
                   frames, stream, outcomes>>

TxInit ==
    /\ document = PlainDocument
    /\ idl = NoIdl
    /\ frames = <<>>
    /\ stream = <<>>
    /\ outcomes = <<>>
    /\ generated = <<>>
    /\ errors = {}
    /\ accounts = <<>>
    /\ buf = <<>>
    /\ sent = NoCall
    /\ result = NoResult
    /\ \E m \in Messages, l \in LoadedAddresses :
         tx = [message |-> m, loaded_addresses |-> l, overflow_checks |-> FALSE,
               panic |-> "", parsed_accounts |-> <<>>]
    /\ pc = "message"

TxNext == ParseTransactionAccounts \/ CompiledInstructionToInstruction

TxSpec == TxInit /\ [][TxNext]_vars

(***************************************************************************)
(* What the properties below speak of.                                     *)
(***************************************************************************)
\* the compiler has looked at the expansion
Compiled == pc \in {"built", "rejected", "returned"}
\* the crate built: deserialize exists
Loaded == pc \in {"built", "returned"}
\* a call of deserialize has returned
Called == pc = "returned"

Discriminators(schema) ==
    {schema.instructions[i].discriminator : i \in DOMAIN schema.instructions}

\* no two instructions of the schema carry the same discriminator
DistinctDiscriminators(schema) ==
    \A i, j \in DOMAIN schema.instructions :
        schema.instructions[i].discriminator = schema.instructions[j].discriminator
            => i = j

\* the instructions whose discriminator is the 8 leading bytes of data
Matches(schema, data) ==
    {i \in DOMAIN schema.instructions :
        Len(data) >= 8 /\ schema.instructions[i].discriminator = SubSeq(data, 1, 8)}

\* the first of them in schema order
Matched(schema, data) ==
    schema.instructions[CHOOSE i \in Matches(schema, data) :
                            \A j \in Matches(schema, data) : i <= j]

\* the Accounts record that binds the i-th account of ix to metas[i]
BoundAccounts(ix, metas) ==
    [ty |-> AccountsStruct(ix),
     val |-> [j \in DOMAIN ix.accounts |->
                <<Snake(ix.accounts[j].name), metas[j].pubkey>>]]

\* the payload of the case of ix by the table on (has accounts, has args)
CasePayload(ix, acc, arg) ==
    CASE ix.accounts = <<>> /\ ix.args = <<>> -> <<>>
      [] ix.accounts # <<>> /\ ix.args = <<>> -> <<acc>>
      [] ix.accounts = <<>> /\ ix.args # <<>> -> <<arg>>
      [] ix.accounts # <<>> /\ ix.args # <<>> -> <<acc, arg>>

\* the names a type refers to through Defined, at any depth
RECURSIVE DefinedNames(_)
DefinedNames(ty) ==
    CASE ty.k = "Primitive" -> {}
      [] ty.k = "Defined" -> {ty.name}
      [] OTHER -> DefinedNames(ty.inner)

FieldsDefinedNames(f) ==
    CASE f.k = "None" -> {}
      [] f.k = "Named" -> UNION {DefinedNames(f.fields[j].ty) : j \in DOMAIN f.fields}
      [] f.k = "Tuple" -> UNION {DefinedNames(f.types[j]) : j \in DOMAIN f.types}

\* the Defined references of the schema: in the args of its instructions,
\* the fields of its structs and the payloads of its enum variants
SchemaDefinedNames(schema) ==
    UNION {UNION {DefinedNames(schema.instructions[i].args[j].ty) :
                     j \in DOMAIN schema.instructions[i].args} :
              i \in DOMAIN schema.instructions}
    \cup UNION {FieldsDefinedNames(schema.types[i].ty.fields) : i \in DOMAIN schema.types}
    \cup UNION {UNION {FieldsDefinedNames(schema.types[i].ty.variants[j].fields) :
                          j \in DOMAIN schema.types[i].ty.variants} :
                   i \in DOMAIN schema.types}

TypeNames(schema) == {schema.types[i].name : i \in DOMAIN schema.types}

\* the Defined references that name no Named Type of the schema
UnresolvedReferences(schema) == SchemaDefinedNames(schema) \ TypeNames(schema)

\* two Named Types of the schema share a name
SharedTypeName(schema) ==
    \E i, j \in DOMAIN schema.types :
        i # j /\ schema.types[i].name = schema.types[j].name

\* the names a type contains by value: through Array, not through Option
\* or Vec
RECURSIVE ValueNames(_)
ValueNames(ty) ==
    CASE ty.k = "Primitive" -> {}
      [] ty.k = "Defined" -> {ty.name}
      [] ty.k = "Array" -> ValueNames(ty.inner)
      [] OTHER -> {}

\* the names a list of fields refers to: by value only, or at all
FieldsNames(f, byValue) ==
    LET names(ty) == IF byValue THEN ValueNames(ty) ELSE DefinedNames(ty)
    IN  CASE f.k = "None" -> {}
          [] f.k = "Named" -> UNION {names(f.fields[j].ty) : j \in DOMAIN f.fields}
          [] f.k = "Tuple" -> UNION {names(f.types[j]) : j \in DOMAIN f.types}

\* the Named Types that the struct Named Types called n refer to
StructNames(schema, n, byValue) ==
    UNION {FieldsNames(schema.types[i].ty.fields, byValue) :
              i \in {i \in DOMAIN schema.types :
                        schema.types[i].name = n /\ schema.types[i].ty.kind = "struct"}}
        \cap TypeNames(schema)

\* the same through k further Named Types
RECURSIVE NamesWithin(_, _, _, _)
NamesWithin(schema, names, k, byValue) ==
    IF k = 0 THEN names
    ELSE NamesWithin(schema,
                     names \cup UNION {StructNames(schema, m, byValue) : m \in names},
                     k - 1, byValue)

\* the struct Named Types on a cycle of references: by value all the way
\* round, or at all
OnCycle(schema, byValue) ==
    {n \in TypeNames(schema) :
        n \in NamesWithin(schema, StructNames(schema, n, byValue),
                          Len(schema.types), byValue)}

\* nothing but its cycles could keep the schema from loading: one
\* instruction, of an 8-byte discriminator, every reference resolved and no
\* two Named Types of one name
PlainSchema(schema) ==
    /\ Len(schema.instructions) = 1
    /\ Len(schema.instructions[1].discriminator) = 8
    /\ UnresolvedReferences(schema) = {}
    /\ ~SharedTypeName(schema)
    /\ \A i \in DOMAIN schema.types : schema.types[i].ty.kind \in {"struct", "enum"}

\* the orders of n things
Orders(n) == {f \in [1 .. n -> 1 .. n] : \A i, j \in 1 .. n : f[i] = f[j] => i = j}

\* the schema with its Named Types in the order f
Reordered(schema, f) ==
    Idl(schema.metadata.name, schema.instructions,
        [i \in DOMAIN schema.types |-> schema.types[f[i]]])

\* the Named Types that get a declaration, and whose name no other has
Declared(schema) ==
    {i \in DOMAIN schema.types :
        /\ schema.types[i].ty.kind \in {"struct", "enum"}
        /\ \A j \in DOMAIN schema.types :
               schema.types[j].name = schema.types[i].name => j = i}

\* the lowered type names every Named Type the schema type refers to, and
\* is the bare path when the schema type is a Defined reference
ByName(ty, lowered) ==
    /\ DefinedNames(ty) \subseteq PathsOf(lowered)
    /\ ty.k = "Defined" => lowered = RPath(ty.name)

\* two lists of account metas of the same addresses in the same order
SameAddresses(a, b) ==
    /\ Len(a) = Len(b)
    /\ \A j \in DOMAIN a : a[j].pubkey = b[j].pubkey

\* the bytes after the discriminator are no encoding of the args of ix
ArgsFail(ix, data, gen) ==
    ~BorshDeserialize(RPath(ArgsStruct(ix)), Drop(data, 8), gen).ok

\* the members of a document that parser.rs names
KnownMembers ==
    [top |-> {"address", "metadata", "instructions", "accounts", "types", "events",
              "errors"},
     metadata |-> {"name", "version", "spec", "description"},
     instruction |-> {"name", "docs", "discriminator", "accounts", "args"},
     account |-> {"name", "writable", "signer", "optional", "address", "pda",
                  "relations"}]

Restrict(d, keys) == [x \in DOMAIN d \cap keys |-> d[x]]

\* the document without the members parser.rs does not name
Known(doc) ==
    LET known_instruction(d) ==
            IF "accounts" \in DOMAIN d
            THEN [Restrict(d, KnownMembers.instruction) EXCEPT
                     !.accounts = [j \in DOMAIN d.accounts |->
                                     Restrict(d.accounts[j], KnownMembers.account)]]
            ELSE Restrict(d, KnownMembers.instruction)
        top == Restrict(doc, KnownMembers.top)
        with_metadata ==
            IF "metadata" \in DOMAIN top
            THEN [top EXCEPT !.metadata = Restrict(doc.metadata, KnownMembers.metadata)]
            ELSE top
    IN  IF "instructions" \in DOMAIN top
        THEN [with_metadata EXCEPT
                 !.instructions = [i \in DOMAIN doc.instructions |->
                                     known_instruction(doc.instructions[i])]]
        ELSE with_metadata

\* the document leaves out a member that has no default
OmitsRequired(doc) ==
    \/ \E k \in {"address", "metadata", "instructions"} : k \notin DOMAIN doc
    \/ "metadata" \in DOMAIN doc
          /\ \E k \in {"name", "version"} : k \notin DOMAIN doc.metadata
    \/ "instructions" \in DOMAIN doc
          /\ \E i \in DOMAIN doc.instructions :
                \/ \E k \in {"name", "discriminator", "accounts"} :
                      k \notin DOMAIN doc.instructions[i]
                \/ "accounts" \in DOMAIN doc.instructions[i]
                      /\ \E j \in DOMAIN doc.instructions[i].accounts :
                            "name" \notin DOMAIN doc.instructions[i].accounts[j]

\* parse_transaction_accounts has run
Parsed == pc \in {"parsed", "panicked", "resolved"}

\* the addresses of a list of account metas
Addresses(metas) == [j \in DOMAIN metas |-> metas[j].pubkey]

\* the errors of the Borsh decoding of the args
MalformedPayload(e) == e.kind = "InvalidData"

\* the accounts supplied pass the account step of instruction ix
AccountsFit(ix, metas) == ix.accounts = <<>> \/ Len(metas) = Len(ix.accounts)

\* data is the payload a caller encodes for ix with bytes missing at its end
Truncated(ix, data, gen) ==
    \E v \in ArgsValues(ix, gen) :
        /\ Len(data) < Len(Payload(ix, v, gen))
        /\ data = SubSeq(Payload(ix, v, gen), 1, Len(data))

\* the Named Types of kind "enum" that carry that name
EnumDefs(schema, n) ==
    {i \in DOMAIN schema.types :
        schema.types[i].name = n /\ schema.types[i].ty.kind = "enum"}

\* the address type of the emitted code
Address == RPath("::solana_sdk::pubkey::Pubkey")

\* the struct items of the expansion that are the Accounts record of some
\* instruction, and those that are the Args record of some, in emission order
AccountsRecords(schema, gen) ==
    SelectSeq(gen.instruction_structs,
              LAMBDA it : it.item = "struct"
                  /\ \E i \in DOMAIN schema.instructions :
                         it.name = AccountsStruct(schema.instructions[i]))

ArgsRecords(schema, gen) ==
    SelectSeq(gen.instruction_structs,
              LAMBDA it : it.item = "struct"
                  /\ \E i \in DOMAIN schema.instructions :
                         it.name = ArgsStruct(schema.instructions[i]))

\* the instructions that declare accounts, and those that declare args, in
\* schema order
WithAccounts(schema) == SelectSeq(schema.instructions, LAMBDA ix : ix.accounts # <<>>)
WithArgs(schema) == SelectSeq(schema.instructions, LAMBDA ix : ix.args # <<>>)

\* the Args record of a returned variant: the last of its members
ArgsOf(res) == res.members[Len(res.members)].val

(***************************************************************************)
(* C1.  Round trip: in a schema whose discriminators are distinct, the     *)
(* payload a caller encodes for an instruction (its discriminator, then    *)
(* the Borsh bytes of an Args value), decoded with as many accounts as the *)
(* instruction declares, returns the variant of that instruction carrying  *)
(* the accounts supplied and the Args value encoded.                       *)
(***************************************************************************)
C1_RoundTrip ==
    (Called /\ sent.ix # 0 /\ DistinctDiscriminators(idl)) =>
        LET ix == idl.instructions[sent.ix]
        IN  result = Ok(Pascal(ix.name),
                        CasePayload(ix, BoundAccounts(ix, accounts),
                                    [ty |-> ArgsStruct(ix), val |-> sent.args]))

\* the second instruction of a schema, with accounts and args, came back
C1_Witness ==
    /\ Called /\ sent.ix = 2 /\ DistinctDiscriminators(idl)
    /\ result.ok /\ Len(result.members) = 2 /\ Len(buf) > 8

(***************************************************************************)
(* C2.  A buffer of fewer than 8 bytes, the empty one included, returns    *)
(* the error of the 8-byte read (UnexpectedEof) as a value and never a     *)
(* variant, whatever the schema and the accounts.                          *)
(***************************************************************************)
C2_TruncatedDiscriminator ==
    (Called /\ Len(buf) < 8) => (~result.ok /\ result = Err(UnexpectedEof))

C2_Witness ==
    /\ Called /\ Len(buf) = 7 /\ accounts # <<>> /\ ~result.ok

(***************************************************************************)
(* C3.  A buffer of at least 8 bytes whose leading 8 bytes are the         *)
(* discriminator of no instruction returns the error "unknown              *)
(* discriminator", whatever the accounts and the bytes that follow; a      *)
(* buffer whose leading 8 bytes are a discriminator never returns it.      *)
(***************************************************************************)
C3_UnknownDiscriminator ==
    (Called /\ Len(buf) >= 8) =>
        /\ SubSeq(buf, 1, 8) \notin Discriminators(idl)
               => result = Err(UnknownDiscriminator)
        /\ SubSeq(buf, 1, 8) \in Discriminators(idl)
               => result.err # UnknownDiscriminator

C3_Witness ==
    /\ Called /\ Len(buf) > 8 /\ accounts # <<>>
    /\ SubSeq(buf, 1, 8) \notin Discriminators(idl)
    /\ result = Err(UnknownDiscriminator)

(***************************************************************************)
(* C4.  As the claim states it: when the matched instruction declares      *)
(* n >= 1 accounts and m # n accounts are supplied, the call returns the   *)
(* account-count error carrying expected = n and actual = m.               *)
(***************************************************************************)
C4_CountsCarried ==
    (Called /\ Matches(idl, buf) # {}
        /\ Matched(idl, buf).accounts # <<>>
        /\ Len(accounts) # Len(Matched(idl, buf).accounts)) =>
        /\ ~result.ok
        /\ result.err.msg = InvalidAccountMetaLength.msg
        /\ result.err.args = <<Len(Matched(idl, buf).accounts), Len(accounts)>>

(***************************************************************************)
(* C4, amended.  When the matched instruction declares n >= 1 accounts and *)
(* m # n accounts are supplied (fewer or more), the call returns the error *)
(* "invalid account meta length", which carries no counts, even when the   *)
(* argument bytes are a valid encoding; a variant of such an instruction   *)
(* is returned only when m = n.                                            *)
(***************************************************************************)
C4_AccountCountMismatch ==
    (Called /\ Matches(idl, buf) # {} /\ Matched(idl, buf).accounts # <<>>) =>
        /\ Len(accounts) # Len(Matched(idl, buf).accounts)
               => result = Err(InvalidAccountMetaLength)
        /\ result.ok => Len(accounts) = Len(Matched(idl, buf).accounts)

\* more accounts than declared, with argument bytes that decode when the
\* count is right
C4_Witness ==
    /\ Called /\ Matches(idl, buf) # {}
    /\ Matched(idl, buf).accounts # <<>> /\ Matched(idl, buf).args # <<>>
    /\ Len(accounts) > Len(Matched(idl, buf).accounts)
    /\ \E metas \in MetaLists : deserialize(generated, metas, buf).ok
    /\ result = Err(InvalidAccountMetaLength)

(***************************************************************************)
(* C5.  A schema in which two instructions carry the same discriminator is *)
(* rejected: it never loads.                                               *)
(***************************************************************************)
C5_DuplicateDiscriminatorRejected ==
    (Compiled /\ ~DistinctDiscriminators(idl)) => pc = "rejected"

(***************************************************************************)
(* C6.  A schema in which some instruction's discriminator is not 8 bytes  *)
(* long is rejected when it is loaded: the emitted [u8; 8] constant does   *)
(* not take an array of another length; every schema that loads has 8-byte *)
(* discriminators only.                                                    *)
(***************************************************************************)
C6_InvalidDiscriminator ==
    /\ (Compiled /\ \E d \in Discriminators(idl) : Len(d) # 8) =>
           (pc = "rejected" /\ "E0308 array length" \in errors)
    /\ Loaded => \A d \in Discriminators(idl) : Len(d) = 8

C6_Witness ==
    /\ pc = "rejected" /\ errors = {"E0308 array length"}
    /\ \E d \in Discriminators(idl) : Len(d) < 8

(***************************************************************************)
(* C7.  A schema in which some Defined reference, at any depth, names no   *)
(* Named Type of the schema is rejected when it is loaded.                 *)
(***************************************************************************)
C7_UnresolvedReferenceRejected ==
    (Compiled /\ UnresolvedReferences(idl) # {}) => pc = "rejected"

(***************************************************************************)
(* C8.  A schema in which two Named Types share a name is rejected when it *)
(* is loaded.                                                              *)
(***************************************************************************)
C8_DuplicateTypeNameRejected ==
    (Compiled /\ SharedTypeName(idl)) => pc = "rejected"

(***************************************************************************)
(* C9.  For every instruction the case emitted in the instructions enum    *)
(* and the members its match arm builds are the same and follow the table  *)
(* on (has accounts, has args); a variant a call returns has the members   *)
(* its case declares.                                                      *)
(***************************************************************************)
C9_SameShape ==
    /\ pc # "source" =>
           \A i \in DOMAIN idl.instructions :
               LET ix == idl.instructions[i]
                   case == generated.instructions_enum.variants[i]
                   arm == generated.deserialize_impl.arms[i]
                   table == CasePayload(ix, AccountsStruct(ix), ArgsStruct(ix))
               IN  /\ case.name = arm.variant
                   /\ [m \in DOMAIN case.fields |-> case.fields[m].ty.name] = table
                   /\ [m \in DOMAIN arm.members |-> arm.members[m].ty] = table
    /\ (Called /\ result.ok) =>
           \E i \in DOMAIN generated.instructions_enum.variants :
               LET case == generated.instructions_enum.variants[i]
               IN  /\ case.name = result.variant
                   /\ [m \in DOMAIN case.fields |-> case.fields[m].ty.name]
                          = [m \in DOMAIN result.members |-> result.members[m].ty]

\* a variant of the (no accounts, args) shape came back from a schema whose
\* other instruction has the (accounts, no args) shape
C9_Witness ==
    /\ Called /\ result.ok /\ Len(idl.instructions) = 2
    /\ Len(result.members) = 1 /\ result.members[1].ty = "BuyArgs"
    /\ idl.instructions[2].accounts # <<>>

(***************************************************************************)
(* C10.  A variant returned for an instruction that declares n accounts    *)
(* carries the Accounts record whose i-th field, the field of the i-th     *)
(* account of the schema, is the pubkey of accounts[i], for every i.       *)
(***************************************************************************)
C10_PositionalBinding ==
    (Called /\ result.ok /\ Matched(idl, buf).accounts # <<>>) =>
        result.members[1] = BoundAccounts(Matched(idl, buf), accounts)

\* two accounts with different pubkeys were bound
C10_Witness ==
    /\ Called /\ result.ok /\ Len(Matched(idl, buf).accounts) = 2
    /\ accounts[1].pubkey # accounts[2].pubkey

(***************************************************************************)
(* C11.  Trailing bytes are not an error and are not returned: whenever a  *)
(* leading part data of a buffer (its 8-byte prefix included) decodes to a *)
(* variant, the whole buffer data ++ t decodes, with the same accounts, to *)
(* the same variant with the same field values, for every shape of         *)
(* payload.                                                                *)
(***************************************************************************)
C11_TrailingBytes ==
    Called =>
        \A n \in 8 .. Len(buf) - 1 :
            LET r == deserialize(generated, accounts, SubSeq(buf, 1, n))
            IN  r.ok => result = r

\* an instruction with args came back from a buffer that goes on after the
\* bytes of its Args record
C11_Witness ==
    /\ Called /\ result.ok /\ Len(buf) > 9
    /\ Matched(idl, buf).args # <<>>
    /\ deserialize(generated, accounts, SubSeq(buf, 1, Len(buf) - 1)).ok

(***************************************************************************)
(* C12.  For the matched instruction with args, once the accounts step has *)
(* passed: a buffer that ends before the encoding of the Args record does  *)
(* (the 8 bytes alone included) returns the Borsh error "Unexpected length *)
(* of input"; a Vec whose length prefix counts more elements than bytes    *)
(* follow returns a Borsh error; and every error of such a call is a Borsh *)
(* error, returned as a value.                                             *)
(***************************************************************************)
C12_MalformedPayload ==
    (Called /\ Matches(idl, buf) # {} /\ Matched(idl, buf).args # <<>>
        /\ AccountsFit(Matched(idl, buf), accounts)) =>
        /\ Truncated(Matched(idl, buf), buf, generated)
               => result = Err(UnexpectedLength)
        /\ (Matched(idl, buf).args[1].ty.k = "Vec" /\ Len(buf) >= 12
               /\ FromLE(SubSeq(buf, 9, 12)) > Len(buf) - 12)
               => (~result.ok /\ MalformedPayload(result.err))
        /\ ~result.ok => MalformedPayload(result.err)

\* a Vec of two elements by its prefix, one element in the buffer
C12_Witness ==
    /\ Called /\ Matches(idl, buf) # {} /\ Matched(idl, buf).args # <<>>
    /\ AccountsFit(Matched(idl, buf), accounts)
    /\ Matched(idl, buf).args[1].ty.k = "Vec" /\ Len(buf) = 13
    /\ FromLE(SubSeq(buf, 9, 12)) = 2
    /\ result = Err(UnexpectedLength)

(***************************************************************************)
(* C13.  When the first arg of the matched instruction is a Named Type of  *)
(* kind enum with k variants, the byte that follows the 8-byte prefix is   *)
(* its tag: a tag j >= k returns the Borsh error of an unexpected variant  *)
(* tag; a tag j < k that decodes yields the variant at position j          *)
(* (counted from 0) of the schema's variant list, and does decode when     *)
(* that variant is a unit variant and no other arg follows.                *)
(***************************************************************************)
C13_EnumOrdinal ==
    (Called /\ Matches(idl, buf) # {} /\ Matched(idl, buf).args # <<>>
        /\ AccountsFit(Matched(idl, buf), accounts) /\ Len(buf) >= 9
        /\ Matched(idl, buf).args[1].ty.k = "Defined"
        /\ EnumDefs(idl, Matched(idl, buf).args[1].ty.name) # {}) =>
        LET ix == Matched(idl, buf)
            e == idl.types[CHOOSE i \in EnumDefs(idl, ix.args[1].ty.name) : TRUE]
            k == Len(e.ty.variants)
            j == buf[9]
        IN  IF j >= k THEN result = Err(InvalidTag(j))
            ELSE /\ result.ok => ArgsOf(result)[1][2][1] = e.ty.variants[j + 1].name
                 /\ (e.ty.variants[j + 1].fields = FieldsNone /\ Len(ix.args) = 1)
                        => result.ok

\* the byte 2 decoded to the third of three unit variants
C13_Witness ==
    /\ Called /\ result.ok /\ Len(buf) >= 9 /\ buf[9] = 2
    /\ Matched(idl, buf).args # <<>>
    /\ Matched(idl, buf).args[1].ty = Defined("Side")
    /\ ArgsOf(result)[1][2] = <<"Both", <<>> >>

(***************************************************************************)
(* C14.  Calls of deserialize, any number of them, by callers whose steps  *)
(* interleave in any order, leave the parsed schema and the emitted items  *)
(* (the discriminator constants, the declarations, the arms) unchanged,    *)
(* and each call returns what one call alone returns on the same accounts  *)
(* and data.                                                               *)
(***************************************************************************)
C14_PureDecoder ==
    /\ [](\A c \in DOMAIN frames :
             frames[c].at = "returned" =>
                 frames[c].result
                     = deserialize(generated, frames[c].accounts, frames[c].buf))
    /\ [][pc = "built" => (generated' = generated /\ idl' = idl /\ errors' = errors)]_vars

\* one caller has a variant back while another is between its read and its
\* match, on another discriminator
C14_Witness ==
    /\ pc = "built"
    /\ frames[1].at = "returned" /\ frames[1].result.ok
    /\ frames[2].at = "read"
    /\ frames[2].maybe_discm # SubSeq(frames[1].buf, 1, 8)

(***************************************************************************)
(* C20.  An error of deserialize does not stop the loop over the           *)
(* instructions: it is a value the loop drops, every later instruction is  *)
(* handed to deserialize, each returns what it returns alone whatever the  *)
(* earlier ones returned, and the loop ends only at the end of the list:   *)
(* before that an instruction is left, which is all its next step needs.   *)
(***************************************************************************)
C20_StreamContinues ==
    /\ \A k \in DOMAIN outcomes :
           outcomes[k] = deserialize(generated, stream[k].accounts, stream[k].data)
    /\ pc = "done" => Len(outcomes) = Len(stream)
    /\ pc = "streaming" => Len(outcomes) < Len(stream)

\* the first instruction failed, the second decoded, the third failed
C20_Witness ==
    /\ pc = "done" /\ Len(stream) = 3
    /\ ~outcomes[1].ok /\ outcomes[2].ok /\ ~outcomes[3].ok

C17_OneCasePerInstruction ==
    /\ pc \in {"expanded", "built"} =>
           /\ Len(generated.instructions_enum.variants) = Len(idl.instructions)
           /\ \A i \in DOMAIN idl.instructions :
                  generated.instructions_enum.variants[i].name
                      = Pascal(idl.instructions[i].name)
    /\ pc = "built" =>
           \A i, j \in DOMAIN generated.instructions_enum.variants :
               generated.instructions_enum.variants[i].name
                   = generated.instructions_enum.variants[j].name => i = j

\* two instructions, the second without accounts and args, in a schema
\* that builds
C17_Witness ==
    /\ pc = "built" /\ Len(idl.instructions) = 2
    /\ idl.instructions[2].accounts = <<>> /\ idl.instructions[2].args = <<>>
    /\ Len(generated.instructions_enum.variants) = 2

(***************************************************************************)
(* C18.  A schema with a struct Named Type that contains itself by value   *)
(* (directly, through Array, or through a chain of Defined references) is  *)
(* rejected; a schema whose only cycles pass through Option or Vec, and    *)
(* that has nothing else wrong with it, loads.                             *)
(***************************************************************************)
C18_RecursionRule ==
    Compiled =>
        /\ OnCycle(idl, TRUE) # {} => pc = "rejected"
        /\ (OnCycle(idl, FALSE) # {} /\ OnCycle(idl, TRUE) = {} /\ PlainSchema(idl))
               => Loaded

(***************************************************************************)
(* C19.  Whatever the order of the Named Types of the schema, the emitted  *)
(* records of the instructions and the declaration of every Named Type are *)
(* the same.  The lowered type of every arg, and of every named field of a *)
(* struct Named Type, names the Named Types its schema type refers to: a   *)
(* Defined reference is the path of that name, the name under which the    *)
(* referenced type is declared.                                            *)
(***************************************************************************)
C19_LoweringByName ==
    pc = "expanded" =>
        /\ \A f \in Orders(Len(idl.types)) :
               LET other == generate_idl_code(Reordered(idl, f))
               IN  /\ other.instruction_structs = generated.instruction_structs
                   /\ other.instructions_enum = generated.instructions_enum
                   /\ Len(other.types) = Len(generated.types)
                   /\ {other.types[k] : k \in DOMAIN other.types}
                          = {generated.types[k] : k \in DOMAIN generated.types}
        /\ \A k \in DOMAIN WithArgs(idl) : \A j \in DOMAIN WithArgs(idl)[k].args :
               /\ ByName(WithArgs(idl)[k].args[j].ty,
                         ArgsRecords(idl, generated)[k].fields[j].ty)
               /\ \A i \in Declared(idl) :
                      idl.types[i].name \in DefinedNames(WithArgs(idl)[k].args[j].ty)
                          => HasTypeItem(generated, idl.types[i].name)
        /\ \A i \in Declared(idl) :
               (idl.types[i].ty.kind = "struct" /\ idl.types[i].ty.fields.k = "Named")
                   => \A j \in DOMAIN idl.types[i].ty.fields.fields :
                          ByName(idl.types[i].ty.fields.fields[j].ty,
                                 TypeItem(generated, idl.types[i].name).fields[j].ty)

\* three Named Types; the arg refers to one of them by a name that is not
\* in Pascal case, and a struct refers to a type that comes after it
C19_Witness ==
    /\ pc = "expanded" /\ Len(idl.types) = 3 /\ Declared(idl) = {1, 2, 3}
    /\ idl.instructions[1].args = <<IdlField("inner", Defined("fee_tier"))>>
    /\ idl.types[3].name \in FieldsDefinedNames(idl.types[2].ty.fields)
    /\ ArgsRecords(idl, generated)[1].fields[1].ty = RPath("fee_tier")
    /\ TypeItem(generated, "fee_tier").shape = "Tuple"

(***************************************************************************)
(* C21.  The result of a call does not depend on is_signer and is_writable *)
(* of the accounts passed: every list of the same addresses in the same    *)
(* order, whatever its flags, gives the result the call gave, and a call   *)
(* with as many accounts as declared, on data that decodes, succeeds       *)
(* whatever the flags and whatever the schema declares of the accounts.    *)
(***************************************************************************)
C21_FlagsIgnored ==
    Called =>
        /\ \A other \in FlaggedMetaLists :
               SameAddresses(other, accounts)
                   => deserialize(generated, other, buf) = result
        /\ (Matches(idl, buf) # {} /\ Len(accounts) = Len(Matched(idl, buf).accounts)
               /\ (Matched(idl, buf).args = <<>> \/ Len(buf) >= 16))
               => result.ok

\* two accounts declared signer and writable, passed as a non-signer and a
\* signer, and the call succeeds
C21_Witness ==
    /\ Called /\ result.ok /\ Len(accounts) = 2
    /\ idl.instructions[1].accounts[1].signer /\ ~accounts[1].is_signer
    /\ accounts[2].is_signer /\ accounts[1].is_writable # accounts[2].is_writable
    /\ result.members[1].val[1][2] = accounts[1].pubkey

(***************************************************************************)
(* C23.  The accounts are checked before the args are decoded: when the    *)
(* matched instruction declares accounts and args, the number of accounts  *)
(* passed is wrong and the bytes after the discriminator are no encoding   *)
(* of the args, the call returns "invalid account meta length"; an error   *)
(* of the args decoding is returned only when the number of accounts is    *)
(* the declared one.                                                       *)
(***************************************************************************)
C23_AccountsBeforeArgs ==
    (Called /\ Matches(idl, buf) # {}
        /\ Matched(idl, buf).accounts # <<>> /\ Matched(idl, buf).args # <<>>) =>
        /\ (Len(accounts) # Len(Matched(idl, buf).accounts)
               /\ ArgsFail(Matched(idl, buf), buf, generated))
               => result = Err(InvalidAccountMetaLength)
        /\ MalformedPayload(result.err)
               => Len(accounts) = Len(Matched(idl, buf).accounts)

\* too few accounts together with args cut short
C23_Witness ==
    /\ Called /\ Matches(idl, buf) # {}
    /\ Len(Matched(idl, buf).accounts) = 2 /\ Matched(idl, buf).args # <<>>
    /\ Len(accounts) = 1 /\ Len(buf) > 8
    /\ ArgsFail(Matched(idl, buf), buf, generated)
    /\ result = Err(InvalidAccountMetaLength)

(***************************************************************************)
(* C24.  When the matched instruction declares no accounts, the accounts   *)
(* passed are not looked at: the call never returns "invalid account meta  *)
(* length", and every list of accounts, empty or not, gives the result the *)
(* call gave.                                                              *)
(***************************************************************************)
C24_AccountsIgnored ==
    (Called /\ Matches(idl, buf) # {} /\ Matched(idl, buf).accounts = <<>>) =>
        /\ result.err # InvalidAccountMetaLength
        /\ \A metas \in MetaLists : deserialize(generated, metas, buf) = result

\* three accounts passed to an instruction of no accounts that has args,
\* and the call succeeds
C24_Witness ==
    /\ Called /\ Matches(idl, buf) # {}
    /\ Matched(idl, buf).accounts = <<>> /\ Matched(idl, buf).args # <<>>
    /\ Len(accounts) = 3 /\ result.ok

(***************************************************************************)
(* C25.  Of the instructions whose discriminator equals the 8 leading      *)
(* bytes, the first in schema order is the one the call decodes: a variant *)
(* returned is that of the first, and when two instructions carry the same *)
(* discriminator no call returns the variant of the later one.             *)
(***************************************************************************)
C25_FirstMatch ==
    (Called /\ Matches(idl, buf) # {}) =>
        /\ result.ok => result.variant = Pascal(Matched(idl, buf).name)
        /\ \A i, j \in DOMAIN idl.instructions :
               (j < i /\ idl.instructions[i].discriminator
                            = idl.instructions[j].discriminator)
                   => result.variant # Pascal(idl.instructions[i].name)
        /\ Matched(idl, buf).accounts # <<>> /\ Len(accounts) # Len(Matched(idl, buf).accounts)
               => ~result.ok

\* two instructions of one discriminator; the call passes no account, which
\* the later one would take and the first refuses
C25_Witness ==
    /\ Called /\ Cardinality(Matches(idl, buf)) = 2
    /\ idl.instructions[1].accounts # <<>> /\ idl.instructions[2].accounts = <<>>
    /\ idl.instructions[2].args = <<>>
    /\ accounts = <<>> /\ ~result.ok

(***************************************************************************)
(* C26.  In a schema that loads, every Named Type has exactly one emitted  *)
(* declaration, whatever its kind, and every Defined reference that names  *)
(* a Named Type of the schema has a declaration to refer to.               *)
(***************************************************************************)
C26_OneDeclarationPerType ==
    Loaded =>
        /\ \A i \in DOMAIN idl.types :
               Cardinality({k \in DOMAIN generated.types :
                               generated.types[k].name = idl.types[i].name}) = 1
        /\ \A n \in SchemaDefinedNames(idl) \cap TypeNames(idl) :
               HasTypeItem(generated, n)

(***************************************************************************)
(* C22.  A document that leaves out a required member (of an instruction:  *)
(* name, discriminator or accounts) fails to parse and nothing is built    *)
(* from it.  Any other document parses: to the Idl of the same document    *)
(* without the members the parser does not name, and with docs = [],       *)
(* writable = signer = optional = false, args = [] and accounts = types =  *)
(* events = errors = [] wherever the document leaves them out.             *)
(***************************************************************************)
C22_LoadDefaults ==
    pc \in {"expanded", "built", "rejected"} =>
        /\ OmitsRequired(document)
               => (pc = "rejected" /\ errors = {"Failed to parse IDL"}
                      /\ idl = NoIdl /\ generated = <<>>)
        /\ ~OmitsRequired(document) =>
               /\ "Failed to parse IDL" \notin errors
               /\ idl = from_str(Known(document)).val
               /\ \A k \in {"accounts", "types", "events", "errors"} :
                      idl[k] = IF k \in DOMAIN document THEN document[k] ELSE <<>>
               /\ Len(idl.instructions) = Len(document.instructions)
               /\ \A i \in DOMAIN document.instructions :
                      LET d == document.instructions[i]
                          ix == idl.instructions[i]
                      IN  /\ ix.name = d.name /\ ix.discriminator = d.discriminator
                          /\ ix.docs = IF "docs" \in DOMAIN d THEN d.docs ELSE <<>>
                          /\ ix.args = IF "args" \in DOMAIN d THEN d.args ELSE <<>>
                          /\ Len(ix.accounts) = Len(d.accounts)
                          /\ \A j \in DOMAIN d.accounts :
                                 /\ DOMAIN ix.accounts[j]
                                        = {"name", "writable", "signer", "optional"}
                                 /\ ix.accounts[j].name = d.accounts[j].name
                                 /\ \A k \in {"writable", "signer", "optional"} :
                                        ix.accounts[j][k]
                                            = IF k \in DOMAIN d.accounts[j]
                                              THEN d.accounts[j][k] ELSE FALSE

\* a document with members the parser does not name, at the top and in an
\* account, and without docs, args, flags and types, builds
C22_Witness ==
    /\ pc = "built" /\ Known(document) # document
    /\ "docs" \in DOMAIN document /\ "isMut" \in DOMAIN document.instructions[1].accounts[1]
    /\ DOMAIN document.instructions[1] = {"name", "discriminator", "accounts"}
    /\ "types" \notin DOMAIN document /\ idl.types = <<>>
    /\ idl.instructions[1].docs = <<>> /\ idl.instructions[1].args = <<>>
    /\ ~idl.instructions[1].accounts[1].signer

(***************************************************************************)
(* C27.  parse_transaction_accounts, for every header: no subtraction      *)
(* underflows, and the list returned holds the static keys in message      *)
(* order, then the loaded writable addresses, then the loaded readonly     *)
(* ones, as many as the three together; a static key is a signer exactly   *)
(* when its index is below num_required_signatures, a loaded address is    *)
(* never one.                                                              *)
(***************************************************************************)
C27_TransactionAccounts ==
    Parsed =>
        LET keys == tx.message.static_account_keys
            loaded == tx.loaded_addresses
            header == tx.message.header
            parsed == tx.parsed_accounts
        IN  /\ ~Underflows(header, Len(keys))
            /\ tx.panic # "attempt to subtract with overflow"
            /\ Addresses(parsed) = keys \o loaded.writable \o loaded.readonly
            /\ Len(parsed) = Len(keys) + Len(loaded.writable) + Len(loaded.readonly)
            /\ \A j \in DOMAIN parsed :
                   parsed[j].is_signer
                       <=> (j <= Len(keys) /\ j - 1 < header.num_required_signatures)

====
